---- MODULE Spec2Model ----
(***************************************************************************)
(* Model of the archive import engine of laniakea:                         *)
(*   src/src/laniakea/archive/pkgimport.py  (PackageImporter,              *)
(*                                           UploadHandler)                *)
(*   src/src/laniakea/db/base.py            (session_scope)                *)
(*   src/src/debcheck/dose.py               (publish lock users)           *)
(*                                                                         *)
(* One repository with one suite (one ArchiveRepoSuiteSettings row, rss)   *)
(* is modelled.  The database is the committed content of the tables the   *)
(* importer touches, the filesystem is the archive pool and the NEW-queue  *)
(* directory.  Package versions are naturals ordered as Debian versions    *)
(* without epoch (so split_epoch(v)[1] = v).                               *)
(***************************************************************************)
EXTENDS Naturals, Sequences, FiniteSets, TLC

\* ------------------------------------------------------------------ bounds
MaxVer == 2
\* number of importer calls in one run
MaxCalls == 4
\* number of process_changes calls in one run
MaxUploads == 2
\* number of distinct digest values a file record may declare
MaxDigest == 2
\* the number of checks _verify_hashes requires
MinHashes == 4
\* number of entries in a Packages index
MaxEntries == 2

\* ----------------------------------------------------------------- domains
Versions == 1..MaxVer
SrcName == "foo"
BinNames == {"foo"}
PkgNames == BinNames \cup {SrcName}
FNames == {"f1", "f2"}
FileLists == {<<"f1">>, <<"f2", "f1">>}
\* The content of a placed file is identified by the artifact it was staged
\* for: the source version for a source file, the version named by the
\* Source field for a binary.  Two artifacts that differ have different bytes.
Contents == Versions
Absent == 0
Policies == {"DEFAULT", "ALWAYS_NEW", "NEVER_NEW"}
NoVersion == 0

\* Pool-relative paths.  pool_dir_from_name() maps a source name to its
\* bucket directory; with one source name every file lives in that bucket.
SrcPath(f) == <<"src", f, 0>>
DebPath(n, v) == <<"deb", n, v>>
Paths == {SrcPath(f) : f \in FNames} \cup {DebPath(n, v) : n \in BinNames, v \in Versions}

Range(s) == {s[i] : i \in 1..Len(s)}

VARIABLES
    vmem,            \* ArchiveVersionMemory: package name -> highest_version (0: no row)
    spkgs,           \* SourcePackage rows of SrcName, by version
    newq,            \* ArchiveQueueNewEntry rows: versions of SrcName pending in NEW
    bpkgs,           \* BinaryPackage rows (with their ArchiveFile): <<name, version>>
    overrides,       \* PackageOverride rows of the repo-suite: binary names
    changes_pending, \* ArchiveRepoSuiteSettings.changes_pending
    pool,            \* files under the archive root: path -> content
    queue,           \* files under the NEW-queue root: path -> content
    last,            \* the last call and its outcome
    calls,           \* number of calls made so far
    pc,              \* concurrent importers: where each process stands
    job,             \* concurrent importers: the binary each process imports
    res,             \* concurrent importers: the outcome of each import
    lock,            \* holder of the publish lock of the repo-suite
    hv,              \* hash verification: the file record, the computed hashes, the outcome
    rd,              \* RepositoryReader: its fields, the repository it reads, the last outcome
    ls,              \* package listing: the index entries, the requested architecture, the result
    mf,              \* the files of one upload and the importer calls process_changes made for them
    ss,              \* session_scope: where the scope stands and what it did to the session
    dc,              \* dependency checker: where each fetch stands, what it did with and without the lock
    sl,              \* ExternalSourcePackage: the class-level suites list and the records listed
    di,              \* _dose_yaml_to_issues: the stored issue, the report entry, the issue returned
    ev               \* MatrixPublisher: the signatures of an event and how it was published

vars == <<vmem, spkgs, newq, bpkgs, overrides, changes_pending, pool, queue, last, calls,
          pc, job, res, lock, hv, rd, ls, mf, ss, dc, sl, di, ev>>

extVars == <<mf, ss, dc, sl, di, ev>>

Procs == {"p1", "p2"}
procVars == <<pc, job, res, lock>>

NoRow == [exists |-> FALSE, inSuite |-> FALSE, files |-> {}]

\* The database tables as one value (what a session reads and writes).
DB == [vmem |-> vmem, spkgs |-> spkgs, newq |-> newq, bpkgs |-> bpkgs,
       overrides |-> overrides, changes_pending |-> changes_pending]
\* The files on disk.
FS == [pool |-> pool, queue |-> queue]

Err == {"None", "VersionRegression", "ChecksumMismatch", "DestinationExists",
        "OrphanedBinary", "MissingOverride", "DuplicateSource", "DuplicateBinary"}

\* ------------------------------------------------------------ inputs
\* A source artifact as rendered by `apt-ftparchive sources`: its version,
\* the files its checksum sections list (in order), the index of the first
\* listed file whose staged content does not match the declared hashes
\* (0: all match) and the binaries it announces.
SourceArtifacts ==
    {a \in [ver : Versions, files : FileLists, bad : 0..2,
             expected : SUBSET BinNames] : a.bad <= Len(a.files)}

\* A binary artifact as rendered by `apt-ftparchive packages`: its name and
\* version, the version of the source named by its Source field (the binary's
\* own version when the field gives none), whether the staged file matches
\* the declared hashes.
BinaryArtifacts ==
    [name : BinNames, ver : Versions, srcver : Versions, hashok : BOOLEAN]

\* ------------------------------------------------------------ helpers
\* The version memory written only when the package has no row yet.
package_mark_published_new_only(db, pkgname, version) ==
    [db EXCEPT !.vmem[pkgname] = IF @ = NoVersion THEN version ELSE @]

\* package_mark_published(): set the version memory of pkgname to version,
\* whatever it held before.
package_mark_published(db, pkgname, version) ==
    [db EXCEPT !.vmem[pkgname] = version]

\* check_overrides_source(): the expected binaries that have no override.
check_overrides_source(db, expected) == expected \ db.overrides

\* register_package_overrides(): add an override for each missing one.
register_package_overrides(db, missing) ==
    [db EXCEPT !.overrides = @ \cup missing]

\* The version-memory query of import_source: a row with a strictly higher
\* version than the proposed one exists.
SeenHigher(db, pkgname, version) == db.vmem[pkgname] > version

\* A new SourcePackage object whose identity (repository, name, version) is
\* already held by a row cannot be inserted.
DuplicateIdentity(db, version, nq_entry) ==
    ~nq_entry /\ db.spkgs[version].exists

\* The placement loop without its os.path.exists() test.
FirstOccupiedUnchecked(dir, files) == 0

\* Index of the first file of the list whose destination is occupied (0: none).
FirstOccupied(dir, files) ==
    LET occ == {i \in 1..Len(files) : dir[SrcPath(files[i])] # Absent}
    IN  IF occ = {} THEN 0 ELSE CHOOSE i \in occ : \A j \in occ : i <= j

\* _copy_or_move() applied to the files before index k (all when k = 0).
CopyFiles(dir, files, k, content) ==
    [p \in Paths |->
        IF \E i \in 1..Len(files) : (k = 0 \/ i < k) /\ p = SrcPath(files[i])
        THEN content ELSE dir[p]]

\* The re-import without the removal of the files staged before.
UnlinkFilesSkipped(dir, fnames) == dir

\* os.unlink() of the files of a package in the NEW-queue directory.
UnlinkFiles(dir, fnames) ==
    [p \in Paths |-> IF \E f \in fnames : p = SrcPath(f) THEN Absent ELSE dir[p]]

\* The routing with the default policy treated like always-NEW.
IsNewRouteDefaultReviews(db, expected, policy) == policy # "NEVER_NEW"

\* The routing without the precedence of the never-NEW policy.
IsNewRouteIgnoringNever(db, expected, policy) ==
    check_overrides_source(db, expected) # {} \/ policy = "ALWAYS_NEW"

\* NEW-queue or pool, as import_source decides it.
IsNewRoute(db, expected, policy) ==
    /\ policy # "NEVER_NEW"
    /\ (check_overrides_source(db, expected) # {} \/ policy = "ALWAYS_NEW")

\* A NEW-queue entry is added for every package routed to NEW, pending or not.
CreatesQueueEntryAlways(nq_entry, is_new) == is_new

\* A new ArchiveQueueNewEntry is created and added to the session only when
\* the package is routed to NEW and the query found no entry for it.
CreatesQueueEntry(nq_entry, is_new) == is_new /\ ~nq_entry

\* ------------------------------------------------------ import_source
\* import_source with each file placed as soon as it is verified, instead of
\* after the verification of all.
import_source_placing_while_verifying(db, fs, a, policy) ==
    LET nq_entry == a.ver \in db.newq
        dup      == DuplicateIdentity(db, a.ver, nq_entry)
        spkg0    == IF nq_entry THEN db.spkgs[a.ver] ELSE NoRow
        \* remove old file entries of a package that is in NEW
        fs1      == [fs EXCEPT !.queue = UnlinkFiles(@, spkg0.files)]
        \* verification loop: files are appended to spkg.files, then verified
        nbad     == a.bad
        appended == {a.files[i] : i \in 1..nbad}
        dbBad    == IF nq_entry
                    THEN [db EXCEPT !.spkgs[a.ver] = [spkg0 EXCEPT !.files = appended]]
                    ELSE db
        \* routing
        missing  == check_overrides_source(db, a.expected)
        is_new   == IsNewRoute(db, a.expected, policy)
        db2      == IF policy = "NEVER_NEW" THEN register_package_overrides(db, missing) ELSE db
        row      == [exists |-> TRUE,
                     inSuite |-> spkg0.inSuite \/ ~is_new,
                     files |-> Range(a.files)]
        \* placement loop
        dir      == IF is_new THEN fs1.queue ELSE fs1.pool
        k        == FirstOccupied(dir, a.files)
        dir2     == CopyFiles(dir, a.files, k, a.ver)
        fs2      == IF is_new THEN [fs1 EXCEPT !.queue = dir2] ELSE [fs1 EXCEPT !.pool = dir2]
        \* the session holds spkg when it is a persistent row, when the new
        \* NEW-queue entry refers to it, or when one of its files was added
        held     == nq_entry \/ is_new \/ k > 1
        dbOcc    == IF held
                    THEN [db2 EXCEPT !.spkgs[a.ver] = row,
                                     !.newq = IF is_new THEN @ \cup {a.ver} ELSE @]
                    ELSE db2
        db3      == [db2 EXCEPT !.spkgs[a.ver] = row,
                                !.newq = IF is_new THEN @ \cup {a.ver} ELSE @ \ {a.ver}]
        db4      == IF is_new THEN db3
                    ELSE [package_mark_published(db3, SrcName, a.ver)
                            EXCEPT !.changes_pending = TRUE]
        \* ArchiveQueueNewEntry rows of this package and suite in the session:
        \* found by the query, after the routing, after the final delete
        nq0      == IF nq_entry THEN 1 ELSE 0
        nq1      == IF CreatesQueueEntry(nq_entry, is_new) THEN nq0 + 1 ELSE nq0
        nq2      == IF ~is_new /\ nq_entry THEN nq1 - 1 ELSE nq1
    IN  IF SeenHigher(db, SrcName, a.ver)
        THEN [db |-> db, fs |-> fs, err |-> "VersionRegression", is_new |-> FALSE,
              nq_rows |-> nq0]
        ELSE IF nbad # 0
        THEN [db |-> IF dup THEN db ELSE dbBad,
              fs |-> IF is_new
                     THEN [fs1 EXCEPT !.queue = CopyFiles(dir, a.files, nbad, a.ver)]
                     ELSE [fs1 EXCEPT !.pool = CopyFiles(dir, a.files, nbad, a.ver)],
              err |-> "ChecksumMismatch",
              is_new |-> FALSE, nq_rows |-> nq0]
        ELSE IF k # 0
        THEN [db |-> IF dup THEN db ELSE dbOcc, fs |-> fs2, err |-> "DestinationExists",
              is_new |-> is_new, nq_rows |-> nq1]
        ELSE IF dup
        THEN [db |-> db, fs |-> fs2, err |-> "DuplicateSource", is_new |-> is_new,
              nq_rows |-> nq1]
        ELSE [db |-> db4, fs |-> fs2, err |-> "None", is_new |-> is_new, nq_rows |-> nq2]

\* import_source marking the version published on the NEW route as well.
import_source_publishing_new(db, fs, a, policy) ==
    LET nq_entry == a.ver \in db.newq
        dup      == DuplicateIdentity(db, a.ver, nq_entry)
        spkg0    == IF nq_entry THEN db.spkgs[a.ver] ELSE NoRow
        \* remove old file entries of a package that is in NEW
        fs1      == [fs EXCEPT !.queue = UnlinkFiles(@, spkg0.files)]
        \* verification loop: files are appended to spkg.files, then verified
        nbad     == a.bad
        appended == {a.files[i] : i \in 1..nbad}
        dbBad    == IF nq_entry
                    THEN [db EXCEPT !.spkgs[a.ver] = [spkg0 EXCEPT !.files = appended]]
                    ELSE db
        \* routing
        missing  == check_overrides_source(db, a.expected)
        is_new   == IsNewRoute(db, a.expected, policy)
        db2      == IF policy = "NEVER_NEW" THEN register_package_overrides(db, missing) ELSE db
        row      == [exists |-> TRUE,
                     inSuite |-> spkg0.inSuite \/ ~is_new,
                     files |-> Range(a.files)]
        \* placement loop
        dir      == IF is_new THEN fs1.queue ELSE fs1.pool
        k        == FirstOccupied(dir, a.files)
        dir2     == CopyFiles(dir, a.files, k, a.ver)
        fs2      == IF is_new THEN [fs1 EXCEPT !.queue = dir2] ELSE [fs1 EXCEPT !.pool = dir2]
        \* the session holds spkg when it is a persistent row, when the new
        \* NEW-queue entry refers to it, or when one of its files was added
        held     == nq_entry \/ is_new \/ k > 1
        dbOcc    == IF held
                    THEN [db2 EXCEPT !.spkgs[a.ver] = row,
                                     !.newq = IF is_new THEN @ \cup {a.ver} ELSE @]
                    ELSE db2
        db3      == [db2 EXCEPT !.spkgs[a.ver] = row,
                                !.newq = IF is_new THEN @ \cup {a.ver} ELSE @ \ {a.ver}]
        db4      == IF FALSE THEN db3
                    ELSE [package_mark_published(db3, SrcName, a.ver)
                            EXCEPT !.changes_pending = TRUE]
        \* ArchiveQueueNewEntry rows of this package and suite in the session:
        \* found by the query, after the routing, after the final delete
        nq0      == IF nq_entry THEN 1 ELSE 0
        nq1      == IF CreatesQueueEntry(nq_entry, is_new) THEN nq0 + 1 ELSE nq0
        nq2      == IF ~is_new /\ nq_entry THEN nq1 - 1 ELSE nq1
    IN  IF SeenHigher(db, SrcName, a.ver)
        THEN [db |-> db, fs |-> fs, err |-> "VersionRegression", is_new |-> FALSE,
              nq_rows |-> nq0]
        ELSE IF nbad # 0
        THEN [db |-> IF dup THEN db ELSE dbBad, fs |-> fs1, err |-> "ChecksumMismatch",
              is_new |-> FALSE, nq_rows |-> nq0]
        ELSE IF k # 0
        THEN [db |-> IF dup THEN db ELSE dbOcc, fs |-> fs2, err |-> "DestinationExists",
              is_new |-> is_new, nq_rows |-> nq1]
        ELSE IF dup
        THEN [db |-> db, fs |-> fs2, err |-> "DuplicateSource", is_new |-> is_new,
              nq_rows |-> nq1]
        ELSE [db |-> db4, fs |-> fs2, err |-> "None", is_new |-> is_new, nq_rows |-> nq2]

\* The result of PackageImporter.import_source on database session db and
\* filesystem fs: the session and filesystem as the call leaves them (on an
\* error: as they are when the exception is raised) and the error.
import_source(db, fs, a, policy) ==
    LET nq_entry == a.ver \in db.newq
        dup      == DuplicateIdentity(db, a.ver, nq_entry)
        spkg0    == IF nq_entry THEN db.spkgs[a.ver] ELSE NoRow
        \* remove old file entries of a package that is in NEW
        fs1      == [fs EXCEPT !.queue = UnlinkFiles(@, spkg0.files)]
        \* verification loop: files are appended to spkg.files, then verified
        nbad     == a.bad
        appended == {a.files[i] : i \in 1..nbad}
        dbBad    == IF nq_entry
                    THEN [db EXCEPT !.spkgs[a.ver] = [spkg0 EXCEPT !.files = appended]]
                    ELSE db
        \* routing
        missing  == check_overrides_source(db, a.expected)
        is_new   == IsNewRoute(db, a.expected, policy)
        db2      == IF policy = "NEVER_NEW" THEN register_package_overrides(db, missing) ELSE db
        row      == [exists |-> TRUE,
                     inSuite |-> spkg0.inSuite \/ ~is_new,
                     files |-> Range(a.files)]
        \* placement loop
        dir      == IF is_new THEN fs1.queue ELSE fs1.pool
        k        == FirstOccupied(dir, a.files)
        dir2     == CopyFiles(dir, a.files, k, a.ver)
        fs2      == IF is_new THEN [fs1 EXCEPT !.queue = dir2] ELSE [fs1 EXCEPT !.pool = dir2]
        \* the session holds spkg when it is a persistent row, when the new
        \* NEW-queue entry refers to it, or when one of its files was added
        held     == nq_entry \/ is_new \/ k > 1
        dbOcc    == IF held
                    THEN [db2 EXCEPT !.spkgs[a.ver] = row,
                                     !.newq = IF is_new THEN @ \cup {a.ver} ELSE @]
                    ELSE db2
        db3      == [db2 EXCEPT !.spkgs[a.ver] = row,
                                !.newq = IF is_new THEN @ \cup {a.ver} ELSE @ \ {a.ver}]
        db4      == IF is_new THEN db3
                    ELSE [package_mark_published(db3, SrcName, a.ver)
                            EXCEPT !.changes_pending = TRUE]
        \* ArchiveQueueNewEntry rows of this package and suite in the session:
        \* found by the query, after the routing, after the final delete
        nq0      == IF nq_entry THEN 1 ELSE 0
        nq1      == IF CreatesQueueEntry(nq_entry, is_new) THEN nq0 + 1 ELSE nq0
        nq2      == IF ~is_new /\ nq_entry THEN nq1 - 1 ELSE nq1
    IN  IF SeenHigher(db, SrcName, a.ver)
        THEN [db |-> db, fs |-> fs, err |-> "VersionRegression", is_new |-> FALSE,
              nq_rows |-> nq0]
        ELSE IF nbad # 0
        THEN [db |-> IF dup THEN db ELSE dbBad, fs |-> fs1, err |-> "ChecksumMismatch",
              is_new |-> FALSE, nq_rows |-> nq0]
        ELSE IF k # 0
        THEN [db |-> IF dup THEN db ELSE dbOcc, fs |-> fs2, err |-> "DestinationExists",
              is_new |-> is_new, nq_rows |-> nq1]
        ELSE IF dup
        THEN [db |-> db, fs |-> fs2, err |-> "DuplicateSource", is_new |-> is_new,
              nq_rows |-> nq1]
        ELSE [db |-> db4, fs |-> fs2, err |-> "None", is_new |-> is_new, nq_rows |-> nq2]

\* ------------------------------------------------------ import_binary
\* The source query without its filter on the version.
PublishedSourceAnyVersion(db, version) ==
    \E v \in Versions : db.spkgs[v].exists /\ db.spkgs[v].inSuite

\* The source package of the binary that is a member of the suite.
PublishedSource(db, version) ==
    db.spkgs[version].exists /\ db.spkgs[version].inSuite

\* The source lookup without its second query, the one on the NEW queue.
PendingSourceNever(db, version) == FALSE

\* The NEW-queue entry of the suite whose package is the binary's source.
PendingSource(db, version) ==
    version \in db.newq /\ db.spkgs[version].exists

\* The NEW branch without its early return before the version memory update.
BinaryToNewPublishing(db, fs, b) ==
    [db |-> [package_mark_published(db, b.name, b.ver) EXCEPT !.changes_pending = TRUE],
     fs |-> [fs EXCEPT !.queue[DebPath(b.name, b.ver)] = b.srcver],
     err |-> "None", is_new |-> TRUE]

\* The binary of a source that is pending in NEW: the file is copied next to
\* the source in the NEW-queue directory (an older copy is replaced) and the
\* call returns.
BinaryToNew(db, fs, b) ==
    [db |-> db,
     fs |-> [fs EXCEPT !.queue[DebPath(b.name, b.ver)] = b.srcver],
     err |-> "None", is_new |-> TRUE]

\* The pool branch without session.add(bpkg).
BinaryToPoolUnregistered(db, fs, b) ==
    LET path == DebPath(b.name, b.ver)
        db3  == [package_mark_published(db, b.name, b.ver)
                    EXCEPT !.changes_pending = TRUE]
    IN  IF b.name \notin db.overrides
        THEN [db |-> db, fs |-> fs, err |-> "MissingOverride", is_new |-> FALSE]
        ELSE IF fs.pool[path] # Absent
        THEN [db |-> db, fs |-> fs, err |-> "DestinationExists", is_new |-> FALSE]
        ELSE [db |-> db3, fs |-> [fs EXCEPT !.pool[path] = b.srcver],
              err |-> "None", is_new |-> FALSE]

\* The pool branch without the test of the override.
BinaryToPoolNoOverride(db, fs, b) ==
    LET path == DebPath(b.name, b.ver)
        db2  == [db EXCEPT !.bpkgs = @ \cup {<<b.name, b.ver>>}]
        db3  == [package_mark_published(db2, b.name, b.ver)
                    EXCEPT !.changes_pending = TRUE]
    IN  IF fs.pool[path] # Absent
        THEN [db |-> db, fs |-> fs, err |-> "DestinationExists", is_new |-> FALSE]
        ELSE [db |-> db3, fs |-> [fs EXCEPT !.pool[path] = b.srcver],
              err |-> "None", is_new |-> FALSE]

\* The binary of a published source: override lookup, destination check, copy
\* to the pool, registration of the package and its file, version memory and
\* pending-changes flag.
BinaryToPool(db, fs, b) ==
    LET path == DebPath(b.name, b.ver)
        db2  == [db EXCEPT !.bpkgs = @ \cup {<<b.name, b.ver>>}]
        db3  == [package_mark_published(db2, b.name, b.ver)
                    EXCEPT !.changes_pending = TRUE]
    IN  IF b.name \notin db.overrides
        THEN [db |-> db, fs |-> fs, err |-> "MissingOverride", is_new |-> FALSE]
        ELSE IF fs.pool[path] # Absent
        THEN [db |-> db, fs |-> fs, err |-> "DestinationExists", is_new |-> FALSE]
        ELSE [db |-> db3, fs |-> [fs EXCEPT !.pool[path] = b.srcver],
              err |-> "None", is_new |-> FALSE]

\* The result of PackageImporter.import_binary, as for import_source.
import_binary(db, fs, b) ==
    LET published == PublishedSource(db, b.srcver)
    IN  IF ~published /\ ~PendingSource(db, b.srcver)
        THEN [db |-> db, fs |-> fs, err |-> "OrphanedBinary", is_new |-> FALSE]
        ELSE IF ~b.hashok
        THEN [db |-> db, fs |-> fs, err |-> "ChecksumMismatch", is_new |-> ~published]
        ELSE IF ~published
        THEN BinaryToNew(db, fs, b)
        ELSE BinaryToPool(db, fs, b)

\* ------------------------------------------------------ session_scope
\* session_scope(): commit when the block ends without an exception, roll
\* back to the state at its start when it raises.
session_scope(dbBefore, dbAfter, raised) ==
    IF raised THEN dbBefore ELSE dbAfter

\* import_source called on its own inside a session_scope: the committed
\* database, the filesystem and the error after the call.
SourceCall(a, policy) ==
    LET r == import_source(DB, FS, a, policy)
    IN  [db |-> session_scope(DB, r.db, r.err # "None"), fs |-> r.fs,
         err |-> r.err, is_new |-> r.is_new,
         nq_rows |-> IF r.err = "None" THEN r.nq_rows
                     ELSE IF a.ver \in newq THEN 1 ELSE 0]

\* import_binary called on its own inside a session_scope.
BinaryCall(b) ==
    LET r == import_binary(DB, FS, b)
    IN  [db |-> session_scope(DB, r.db, r.err # "None"), fs |-> r.fs,
         err |-> r.err, is_new |-> r.is_new]

\* ------------------------------------------------------------ state
Install(db, fs) ==
    /\ vmem' = db.vmem
    /\ spkgs' = db.spkgs
    /\ newq' = db.newq
    /\ bpkgs' = db.bpkgs
    /\ overrides' = db.overrides
    /\ changes_pending' = db.changes_pending
    /\ pool' = fs.pool
    /\ queue' = fs.queue

\* ------------------------------------------------------ _verify_hashes
\* The hash types _verify_hashes knows, with the field of the file record
\* each is compared with (md5sum, sha1sum, sha256sum, sha512sum, size).
KnownHashTypes == {"MD5Sum", "SHA1", "SHA256", "SHA512", "Checksum-FileSize"}

\* The order in which Hashes(f).hashes yields what it computed; "Other" is a
\* hash type of a newer APT.
AptHashOrder == <<"MD5Sum", "SHA1", "SHA256", "SHA512", "Checksum-FileSize", "Other">>

\* A field of the file record that was never assigned (None).
NoDigest == 0

\* What the hash of each type is for the bytes of the local file.
FileDigest == 1

\* Hashes(f).hashes when APT computes the hash types in `present`.
Hashes(present) ==
    LET types == SelectSeq(AptHashOrder, LAMBDA t : t \in present)
    IN  [i \in 1..Len(types) |-> [hashtype |-> types[i], hashvalue |-> FileDigest]]

VerifyErr == {"None", "ChecksumMismatch", "UnknownHashType", "InsufficientHashes"}

\* The loop of _verify_hashes from the i-th computed hash on.
RECURSIVE verify_hashes_from(_, _, _, _)
verify_hashes_from(file, hashes, i, hashes_checked) ==
    IF i > Len(hashes)
    THEN [err |-> IF hashes_checked < MinHashes THEN "InsufficientHashes" ELSE "None",
          hashes_checked |-> hashes_checked]
    ELSE LET hash == hashes[i]
         IN  IF hash.hashtype \notin KnownHashTypes
             THEN [err |-> "UnknownHashType", hashes_checked |-> hashes_checked]
             ELSE IF file[hash.hashtype] # hash.hashvalue
             THEN [err |-> "ChecksumMismatch", hashes_checked |-> hashes_checked]
             ELSE verify_hashes_from(file, hashes, i + 1, hashes_checked + 1)

\* _verify_hashes without the final test of the number of checks.
_verify_hashes_no_minimum(file, hashes) ==
    LET r == verify_hashes_from(file, hashes, 1, 0)
    IN  IF r.err = "InsufficientHashes" THEN [r EXCEPT !.err = "None"] ELSE r

_verify_hashes(file, hashes) == verify_hashes_from(file, hashes, 1, 0)

\* A checksum section of a source stanza as it declares one file (digest and
\* size), or the section missing from the stanza.
NoSection == [digest |-> NoDigest, size |-> NoDigest]

\* The field of the file record a checksum section fills.
SectionHashType == [md5 |-> "MD5Sum", sha1 |-> "SHA1", sha256 |-> "SHA256",
                    sha512 |-> "SHA512"]

\* checksums_list_to_file for one file: a missing section leaves the record
\* as it is, a declared one sets the digest of its type and the size.
checksums_list_to_file(cslist, checksum, file) ==
    IF cslist = NoSection
    THEN file
    ELSE [file EXCEPT ![SectionHashType[checksum]] = cslist.digest,
                      !["Checksum-FileSize"] = cslist.size]

\* The file record import_source builds from the four sections of a stanza.
SourceFileRecord(src_tf) ==
    LET f0 == [t \in KnownHashTypes |-> NoDigest]
        f1 == checksums_list_to_file(src_tf.Files, "md5", f0)
        f2 == checksums_list_to_file(src_tf.Sha1, "sha1", f1)
        f3 == checksums_list_to_file(src_tf.Sha256, "sha256", f2)
    IN  checksums_list_to_file(src_tf.Sha512, "sha512", f3)

FileRecords == [KnownHashTypes -> {NoDigest} \cup (1..MaxDigest)]

NoVerify == [file |-> [t \in KnownHashTypes |-> NoDigest], hashes |-> <<>>,
             called |-> FALSE, err |-> "None", hashes_checked |-> 0]

\* ------------------------------------------------------ RepositoryReader
\* The index file the calls ask for and another file of the same suite, by
\* their paths relative to dists/<suite>.
IndexName == "main/source/Sources.xz"
OtherName == "main/binary-all/Packages.xz"

\* The lines of the SHA256 section of a release manifest, as
\* parse_checksums_list returns them (ArchiveFile: fname, sha256sum).
ManifestEntries == [fname : {IndexName}, sha256sum : 1..MaxDigest]
                   \cup {[fname |-> OtherName, sha256sum |-> 1]}
Listings == SUBSET ManifestEntries

\* A file that is not there (content: its SHA256 otherwise).
NoFile == 0

NoManifest == [present |-> FALSE, sig |-> "invalid", files |-> {}]
\* InRelease files: signed by a key of the configured keyrings or not.
Manifests == {NoManifest} \cup
             [present : {TRUE}, sig : {"valid", "invalid"}, files : Listings]

NoCache == [cached |-> FALSE, files |-> {}]

ReaderErr == {"ManifestUnavailable", "SignatureInvalid", "ChecksumMismatch",
              "NotInManifest", "NotFound"}

\* A reader as __init__ leaves it, on a repository without files.
NoReader == [repo_url |-> FALSE, keyrings |-> FALSE, trusted |-> FALSE,
             inrelease |-> NoCache, manifest |-> NoManifest, file |-> NoFile,
             op |-> "none", out |-> "None"]

\* _fetch_repo_file_internal: a remote file is downloaded to the cache
\* directory and the target name returned; a local file is returned when it
\* is a file, None otherwise.
_fetch_repo_file_internal(r, present) ==
    IF r.repo_url THEN "path" ELSE IF present THEN "path" ELSE "None"

\* The requirement dropped for every trusted reader, with keyrings or not.
RequireSignatureUnlessTrusted(r) == ~r.trusted

\* require_signature of _read_repo_information.
RequireSignature(r) == ~(r.trusted /\ ~r.keyrings)

\* SignedFile(contents, keyrings, require_signature): raises unless the
\* signature is one of a key in the keyrings, when it is required.
SignedFile(r, m, require_signature) ==
    ~require_signature \/ (r.keyrings /\ m.sig = "valid")

\* The read without the lookup in the cache of the reader.
_read_repo_information_uncached(r, check) ==
    LET irfname == _fetch_repo_file_internal(r, r.manifest.present)
    IN  IF irfname = "None"
        THEN [rd |-> r, err |-> IF check THEN "ManifestUnavailable" ELSE "None",
              files |-> {}, fetched |-> TRUE]
        ELSE IF ~r.manifest.present
        THEN [rd |-> r, err |-> "NotFound", files |-> {}, fetched |-> TRUE]
        ELSE IF ~SignedFile(r, r.manifest, RequireSignature(r))
        THEN [rd |-> r, err |-> "SignatureInvalid", files |-> {}, fetched |-> TRUE]
        ELSE [rd |-> [r EXCEPT !.inrelease = [cached |-> TRUE, files |-> r.manifest.files]],
              err |-> "None", files |-> r.manifest.files, fetched |-> TRUE]

\* _read_repo_information: the reader after the call, the error raised, the
\* files of the InReleaseData returned, and whether the manifest was fetched.
_read_repo_information(r, check) ==
    LET irfname == _fetch_repo_file_internal(r, r.manifest.present)
    IN  IF r.inrelease.cached
        THEN [rd |-> r, err |-> "None", files |-> r.inrelease.files, fetched |-> FALSE]
        ELSE IF irfname = "None"
        THEN [rd |-> r, err |-> IF check THEN "ManifestUnavailable" ELSE "None",
              files |-> {}, fetched |-> TRUE]
        ELSE IF ~r.manifest.present
        THEN [rd |-> r, err |-> "NotFound", files |-> {}, fetched |-> TRUE]
        ELSE IF ~SignedFile(r, r.manifest, RequireSignature(r))
        THEN [rd |-> r, err |-> "SignatureInvalid", files |-> {}, fetched |-> TRUE]
        ELSE [rd |-> [r EXCEPT !.inrelease = [cached |-> TRUE, files |-> r.manifest.files]],
              err |-> "None", files |-> r.manifest.files, fetched |-> TRUE]

\* The comparison satisfied as soon as one entry of the path matches.
IndexMismatchUnlessOneMatches(files, fname, sha) ==
    /\ \E af \in files : af.fname = fname
    /\ \A af \in files : af.fname = fname => sha # af.sha256sum

\* An entry of the manifest for the path has another SHA256 than the file.
IndexMismatch(files, fname, sha) ==
    \E af \in files : af.fname = fname /\ sha # af.sha256sum

\* index_file(suite, fname, check): the reader after the call, the outcome
\* ("path", "None" or the error raised) and whether the manifest was fetched.
index_file(r, fname, check) ==
    LET r1 == IF r.repo_url THEN [r EXCEPT !.inrelease = NoCache] ELSE r
        ird == _read_repo_information(r1, TRUE)
        index_fname == _fetch_repo_file_internal(r, r.file # NoFile)
        valid == \E af \in ird.files : af.fname = fname
    IN  IF ird.err # "None"
        THEN [rd |-> ird.rd, out |-> ird.err, fetched |-> ird.fetched]
        ELSE IF index_fname = "None"
        THEN [rd |-> ird.rd, out |-> "None", fetched |-> ird.fetched]
        ELSE IF r.file = NoFile
        THEN [rd |-> ird.rd, out |-> "NotFound", fetched |-> ird.fetched]
        ELSE IF IndexMismatch(ird.files, fname, r.file)
        THEN [rd |-> ird.rd, out |-> "ChecksumMismatch", fetched |-> ird.fetched]
        ELSE IF ~valid /\ check
        THEN [rd |-> ird.rd, out |-> "NotInManifest", fetched |-> ird.fetched]
        ELSE [rd |-> ird.rd, out |-> "path", fetched |-> ird.fetched]

\* get_file without its comparison.
get_file_unchecked(r, sha256sum, check) ==
    [rd |-> r, out |-> IF r.file = NoFile THEN "NotFound" ELSE "path", fetched |-> FALSE]

\* get_file(afile, check): afile.sha256sum is the digest of the record the
\* caller holds.
get_file(r, sha256sum, check) ==
    LET fname == _fetch_repo_file_internal(r, r.file # NoFile)
    IN  IF r.file = NoFile
        THEN [rd |-> r, out |-> IF fname = "None" /\ ~check THEN "None" ELSE "NotFound",
              fetched |-> FALSE]
        ELSE IF check /\ r.file # sha256sum
        THEN [rd |-> r, out |-> "ChecksumMismatch", fetched |-> FALSE]
        ELSE [rd |-> r, out |-> "path", fetched |-> FALSE]

\* ------------------------------------- _read_binary_packages_from_tf
Archs == {"all", "amd64", "arm64"}

\* An entry of a Packages index: its Architecture field and whether its
\* Filename field ends with ".udeb".
IndexEntries == [arch_name : Archs, udeb_fname : BOOLEAN]

\* The loop without its first `continue`: arch:all entries are listed for
\* every requested architecture.
KeepsEntryWithAll(arch, arch_name) ==
    ~(arch = "all" /\ arch_name # "all")

\* The two `continue` of the loop: the entry is kept unless it is arch:all
\* and another architecture was requested, or arch:all was requested and the
\* entry is of another architecture.
KeepsEntry(arch, arch_name) ==
    /\ ~(arch # "all" /\ arch_name = "all")
    /\ ~(arch_name # arch /\ arch = "all" /\ arch_name # "all")

\* pkg.deb_type as the loop leaves it: set from the parameter first, then
\* set to DEB, and to UDEB if the filename ends with ".udeb".
DebTypeOf(deb_type, udeb_fname) == IF udeb_fname THEN "UDEB" ELSE "DEB"

\* _read_binary_packages_from_tf from the i-th entry on: the records
\* returned, each with the index entry it was made from.
RECURSIVE read_binary_packages_from(_, _, _, _)
read_binary_packages_from(tf, arch, deb_type, i) ==
    IF i > Len(tf) THEN <<>>
    ELSE LET e == tf[i]
             pkg == [entry |-> i,
                     architecture |-> arch,
                     deb_type |-> DebTypeOf(deb_type, e.udeb_fname),
                     warned |-> e.arch_name # arch]
             rest == read_binary_packages_from(tf, arch, deb_type, i + 1)
         IN  IF KeepsEntry(arch, e.arch_name) THEN <<pkg>> \o rest ELSE rest

_read_binary_packages_from_tf(tf, arch, deb_type) ==
    read_binary_packages_from(tf, arch, deb_type, 1)

\* binary_packages and installer_packages, once the index file is found.
binary_packages(tf, arch) == _read_binary_packages_from_tf(tf, arch, "DEB")
installer_packages(tf, arch) == _read_binary_packages_from_tf(tf, arch, "UDEB")

NoListing == [tf |-> <<>>, arch |-> "all", op |-> "none", pkgs |-> <<>>]

\* ------------------------------------------------------------ calls
NoCall == [op |-> "none", ver |-> 1, srcver |-> 1, err |-> "None",
           is_new |-> FALSE, raised |-> FALSE]

EmptyDB == [vmem |-> [n \in PkgNames |-> NoVersion],
            spkgs |-> [v \in Versions |-> NoRow],
            newq |-> {}, bpkgs |-> {}, overrides |-> {},
            changes_pending |-> FALSE]
EmptyFS == [pool |-> [p \in Paths |-> Absent], queue |-> [p \in Paths |-> Absent]]

\* ---------------------------------------------- components at rest
NoRun == [files |-> <<>>, review |-> FALSE, called |-> FALSE, accepted |-> FALSE,
          trace |-> <<>>]
\* No session_scope entered yet.  pc: where the context manager stands;
\* session: what the session holds; before: the database when it was made;
\* raised: the block raised; pending: an exception is on its way to the
\* caller; commits, rollbacks, closes: calls of the session's methods.
NoSession == [pc |-> "none", session |-> EmptyDB, before |-> EmptyDB,
              raised |-> FALSE, pending |-> FALSE, committed |-> FALSE,
              commits |-> 0, rollbacks |-> 0, closes |-> 0]
\* No depcheck call made yet.  Per process: pc: where the fetch function
\* stands; fn, suite: the function called and its suite; held: the process
\* holds the publish lock of the suite; todo: report entries not yet turned
\* into issue records; unlocked_read: an index was read or the tool run
\* without the lock; locked_update: an issue record was written with it.
NoDose == [p \in Procs |-> [pc |-> "idle", fn |-> "depcheck", suite |-> "s1",
                            held |-> FALSE, todo |-> 0,
                            unlocked_read |-> FALSE, locked_update |-> FALSE]]
\* No package list read yet.  source_suites, binary_suites: the list that
\* the attribute `suites` of class ExternalSourcePackage (ExternalBinaryPackage)
\* is bound to; op, suite, count: the last call, its suite and the number of
\* records it returned.
NoRecords == [op |-> "none", suite |-> "s1", count |-> 0,
              source_suites |-> <<>>, binary_suites |-> <<>>]
\* No report converted yet.  stored: the database holds an issue with the
\* uuid of the entry; missing, conflicts: the lists of that issue (the
\* positions of the reasons they were made from); reasons: the reasons of
\* the entry converted last; listed: its issue is in all_issues; is_new: it
\* is in new_issues; raised: the conversion ended with an exception.
NoIssue == [called |-> FALSE, stored |-> FALSE, missing |-> <<>>, conflicts |-> <<>>,
            reasons |-> <<>>, listed |-> FALSE, is_new |-> FALSE, raised |-> FALSE]
\* No event received yet.  blacklisted: the tag of the event is in
\* EVENT_TAG_BLACKLIST; present: the event has a `signatures` entry;
\* signatures: its signers in the order of the dictionary, each with whether
\* its key is one of the trusted keys and whether its signature verifies;
\* allow_unsigned: the setting of the publisher; signature_trusted, published,
\* raised: what the handler made of the event.
NoEvent == [called |-> FALSE, blacklisted |-> FALSE, present |-> TRUE,
            signatures |-> <<>>, allow_unsigned |-> FALSE,
            signature_trusted |-> FALSE, published |-> "none", raised |-> FALSE]

InitExt ==
    /\ mf = NoRun
    /\ ss = NoSession
    /\ dc = NoDose
    /\ sl = NoRecords
    /\ di = NoIssue
    /\ ev = NoEvent

InitArchive ==
    /\ vmem = EmptyDB.vmem
    /\ spkgs = EmptyDB.spkgs
    /\ newq = EmptyDB.newq
    /\ bpkgs = EmptyDB.bpkgs
    /\ overrides = EmptyDB.overrides
    /\ changes_pending = EmptyDB.changes_pending
    /\ pool = EmptyFS.pool
    /\ queue = EmptyFS.queue
    /\ last = NoCall
    /\ calls = 0

IdleJob == [name |-> "foo", ver |-> 1, srcver |-> 1, hashok |-> TRUE]

InitProcs ==
    /\ pc = [p \in Procs |-> "idle"]
    /\ job = [p \in Procs |-> IdleJob]
    /\ res = [p \in Procs |-> "None"]
    /\ lock = "free"

Init == InitArchive /\ InitProcs /\ hv = NoVerify /\ rd = NoReader /\ ls = NoListing /\ InitExt

\* import_source called on its own, in a session_scope of the caller.
ImportSource ==
    \E a \in SourceArtifacts, policy \in Policies :
        LET r == SourceCall(a, policy)
        IN  /\ Install(r.db, r.fs)
            /\ last' = [op |-> "import_source", ver |-> a.ver, srcver |-> a.ver,
                        err |-> r.err, is_new |-> r.is_new, raised |-> r.err # "None"]

\* import_binary called on its own, in a session_scope of the caller.
ImportBinary ==
    \E b \in BinaryArtifacts :
        LET r == BinaryCall(b)
        IN  /\ Install(r.db, r.fs)
            /\ last' = [op |-> "import_binary", ver |-> b.ver, srcver |-> b.srcver,
                        err |-> r.err, is_new |-> r.is_new, raised |-> r.err # "None"]

Next ==
    /\ calls < MaxCalls
    /\ calls' = calls + 1
    /\ UNCHANGED <<procVars, hv, rd, ls, extVars>>
    /\ \/ ImportSource
       \/ ImportBinary

Spec == Init /\ [][Next]_vars

TypeOK ==
    /\ vmem \in [PkgNames -> 0..MaxVer]
    /\ spkgs \in [Versions -> [exists : BOOLEAN, inSuite : BOOLEAN, files : SUBSET FNames]]
    /\ newq \subseteq Versions
    /\ bpkgs \subseteq BinNames \X Versions
    /\ overrides \subseteq BinNames
    /\ changes_pending \in BOOLEAN
    /\ pool \in [Paths -> Contents \cup {Absent}]
    /\ queue \in [Paths -> Contents \cup {Absent}]
    /\ hv \in [file : FileRecords, hashes : Seq([hashtype : Range(AptHashOrder),
                                                  hashvalue : {FileDigest}]),
               called : BOOLEAN, err : VerifyErr, hashes_checked : 0..Len(AptHashOrder)]
    /\ rd \in [repo_url : BOOLEAN, keyrings : BOOLEAN, trusted : BOOLEAN,
               inrelease : [cached : BOOLEAN, files : Listings], manifest : Manifests,
               file : {NoFile} \cup (1..MaxDigest),
               op : {"none", "set_trusted", "update", "index_file", "get_file"},
               out : {"None", "path"} \cup ReaderErr]
    /\ ls.tf \in Seq(IndexEntries) /\ ls.arch \in Archs
    /\ ls.op \in {"none", "binary_packages", "installer_packages"}
    /\ \A k \in 1..Len(ls.pkgs) :
           ls.pkgs[k] \in [entry : 1..Len(ls.tf), architecture : Archs,
                           deb_type : {"DEB", "UDEB"}, warned : BOOLEAN]

\* ------------------------------------------- _verify_hashes on its own
\* A file record and the hashes computed of a local file, before the call.
InitVerify ==
    /\ InitArchive
    /\ InitProcs
    /\ \E file \in FileRecords, present \in SUBSET Range(AptHashOrder) :
           hv = [NoVerify EXCEPT !.file = file, !.hashes = Hashes(present)]
    /\ rd = NoReader
    /\ ls = NoListing
    /\ InitExt

VerifyHashes ==
    /\ ~hv.called
    /\ LET r == _verify_hashes(hv.file, hv.hashes)
       IN  hv' = [hv EXCEPT !.called = TRUE, !.err = r.err,
                            !.hashes_checked = r.hashes_checked]
    /\ UNCHANGED <<vmem, spkgs, newq, bpkgs, overrides, changes_pending, pool, queue,
                   last, calls, procVars, rd, ls, extVars>>

SpecVerify == InitVerify /\ [][VerifyHashes]_vars

\* ----------------------------------------------- the reader on its own
\* A reader right after construction: remote or local, with or without
\* keyrings, not trusted, nothing cached; the repository holds any manifest
\* and any file.
InitReader ==
    /\ InitArchive
    /\ InitProcs
    /\ hv = NoVerify
    /\ ls = NoListing
    /\ InitExt
    /\ \E url \in BOOLEAN, keys \in BOOLEAN, m \in Manifests, f \in {NoFile} \cup (1..MaxDigest) :
           rd = [NoReader EXCEPT !.repo_url = url, !.keyrings = keys,
                                 !.manifest = m, !.file = f]

ReaderUnchanged ==
    UNCHANGED <<vmem, spkgs, newq, bpkgs, overrides, changes_pending, pool, queue,
                last, calls, procVars, hv, ls, extVars>>

SetTrusted ==
    \E trusted \in BOOLEAN :
        rd' = [rd EXCEPT !.trusted = trusted, !.op = "set_trusted", !.out = "None"]

\* The repository is updated by its owner between two calls.
RepoUpdate ==
    \/ \E m \in Manifests :
            rd' = [rd EXCEPT !.manifest = m, !.op = "update", !.out = "None"]
    \/ \E f \in {NoFile} \cup (1..MaxDigest) :
            rd' = [rd EXCEPT !.file = f, !.op = "update", !.out = "None"]

IndexFile ==
    \E check \in BOOLEAN :
        LET r == index_file(rd, IndexName, check)
        IN  rd' = [r.rd EXCEPT !.op = "index_file", !.out = r.out]

GetFile ==
    \E sha256sum \in 1..MaxDigest, check \in BOOLEAN :
        LET r == get_file(rd, sha256sum, check)
        IN  rd' = [r.rd EXCEPT !.op = "get_file", !.out = r.out]

NextReader ==
    /\ ReaderUnchanged
    /\ \/ SetTrusted
       \/ RepoUpdate
       \/ IndexFile
       \/ GetFile

SpecReader == InitReader /\ [][NextReader]_vars

\* ---------------------------------------- the package listing on its own
RECURSIVE SeqsUpTo(_, _)
SeqsUpTo(S, n) ==
    IF n = 0 THEN {<<>>}
    ELSE LET shorter == SeqsUpTo(S, n - 1)
         IN  shorter \cup {Append(q, x) : q \in shorter, x \in S}

InitListing ==
    /\ InitArchive
    /\ InitProcs
    /\ hv = NoVerify
    /\ rd = NoReader
    /\ InitExt
    /\ \E tf \in SeqsUpTo(IndexEntries, MaxEntries), arch \in Archs :
           ls = [NoListing EXCEPT !.tf = tf, !.arch = arch]

ListingUnchanged ==
    UNCHANGED <<vmem, spkgs, newq, bpkgs, overrides, changes_pending, pool, queue,
                last, calls, procVars, hv, rd, extVars>>

BinaryPackages ==
    /\ ls.op = "none"
    /\ ls' = [ls EXCEPT !.op = "binary_packages", !.pkgs = binary_packages(ls.tf, ls.arch)]
    /\ ListingUnchanged

InstallerPackages ==
    /\ ls.op = "none"
    /\ ls' = [ls EXCEPT !.op = "installer_packages",
                        !.pkgs = installer_packages(ls.tf, ls.arch)]
    /\ ListingUnchanged

NextListing == BinaryPackages \/ InstallerPackages

SpecListing == InitListing /\ [][NextListing]_vars

\* --------------------------------------- the suites of listed records
RepoSuites == {"s1", "s2"}

\* `if suite not in pkg.suites: pkg.suites.append(suite)`, once for every
\* record made: pkg.suites is the list of the class, no record has one of
\* its own.
AppendSuite(suites, suite, made) ==
    IF made > 0 /\ suite \notin Range(suites) THEN Append(suites, suite) ELSE suites

\* pkg.suites of the records the last call returned.
SuitesOfRecords ==
    IF sl.op = "source_packages" THEN sl.source_suites ELSE sl.binary_suites

\* source_packages(suite, component): one record for every entry of the index
SourcePackagesOf ==
    /\ calls < MaxCalls
    /\ calls' = calls + 1
    /\ \E suite \in RepoSuites :
           sl' = [sl EXCEPT !.op = "source_packages", !.suite = suite,
                            !.count = Len(ls.tf),
                            !.source_suites = AppendSuite(@, suite, Len(ls.tf))]
    /\ UNCHANGED <<vmem, spkgs, newq, bpkgs, overrides, changes_pending, pool, queue,
                   last, procVars, hv, rd, ls, mf, ss, dc, di, ev>>

\* binary_packages(suite, component, arch)
BinaryPackagesOf ==
    /\ calls < MaxCalls
    /\ calls' = calls + 1
    /\ \E suite \in RepoSuites :
           LET pkgs == binary_packages(ls.tf, ls.arch)
           IN  /\ ls' = [ls EXCEPT !.op = "binary_packages", !.pkgs = pkgs]
               /\ sl' = [sl EXCEPT !.op = "binary_packages", !.suite = suite,
                                   !.count = Len(pkgs),
                                   !.binary_suites = AppendSuite(@, suite, Len(pkgs))]
    /\ UNCHANGED <<vmem, spkgs, newq, bpkgs, overrides, changes_pending, pool, queue,
                   last, procVars, hv, rd, mf, ss, dc, di, ev>>

NextSuites == SourcePackagesOf \/ BinaryPackagesOf

SpecSuites == InitListing /\ [][NextSuites]_vars

\* ------------------------------------------------ _dose_yaml_to_issues
\* What a reason of a report entry holds: a missing package, a conflict, or
\* neither.
ReasonKinds == {"missing", "conflict", "other"}

\* The loop with the two assignments made after it.
RECURSIVE reasons_loop_assigning_after(_, _, _, _, _)
reasons_loop_assigning_after(issue, reasons, i, missing, conflicts) ==
    IF i > Len(reasons)
    THEN [missing |-> missing, conflicts |-> conflicts, raised |-> FALSE]
    ELSE IF reasons[i] = "missing"
    THEN reasons_loop_assigning_after(issue, reasons, i + 1, Append(missing, i), conflicts)
    ELSE IF reasons[i] = "conflict"
    THEN reasons_loop_assigning_after(issue, reasons, i + 1, missing, Append(conflicts, i))
    ELSE [missing |-> issue.missing, conflicts |-> issue.conflicts, raised |-> TRUE]

\* `for reason in reasons`: the reason is appended to the local list missing
\* or conflicts, or the loop raises; the last two statements of the loop
\* body bind issue.missing and issue.conflicts to the local lists.
RECURSIVE reasons_loop(_, _, _, _, _)
reasons_loop(issue, reasons, i, missing, conflicts) ==
    IF i > Len(reasons)
    THEN [missing |-> issue.missing, conflicts |-> issue.conflicts, raised |-> FALSE]
    ELSE IF reasons[i] = "missing"
    THEN reasons_loop([missing |-> Append(missing, i), conflicts |-> conflicts],
                      reasons, i + 1, Append(missing, i), conflicts)
    ELSE IF reasons[i] = "conflict"
    THEN reasons_loop([missing |-> missing, conflicts |-> Append(conflicts, i)],
                      reasons, i + 1, missing, Append(conflicts, i))
    ELSE [missing |-> issue.missing, conflicts |-> issue.conflicts, raised |-> TRUE]

\* One entry of the report is converted: skipped when it is of architecture
\* all and another architecture is read; else the issue with its uuid is
\* taken from the database or made, and the reasons are read into it.  An
\* exception ends the conversion and the session of the caller is rolled
\* back.
DoseYamlToIssues ==
    /\ calls < MaxCalls
    /\ calls' = calls + 1
    /\ \E reasons \in SeqsUpTo(ReasonKinds, MaxEntries), entry_all \in BOOLEAN,
          arch_is_all \in BOOLEAN :
           LET existing == [missing |-> di.missing, conflicts |-> di.conflicts]
               fresh == [missing |-> <<>>, conflicts |-> <<>>]
               r == reasons_loop(IF di.stored THEN existing ELSE fresh, reasons, 1,
                                 <<>>, <<>>)
           IN  IF ~arch_is_all /\ entry_all
               THEN di' = [di EXCEPT !.called = TRUE, !.reasons = reasons,
                                     !.listed = FALSE, !.is_new = FALSE,
                                     !.raised = FALSE]
               ELSE IF r.raised
               THEN di' = [di EXCEPT !.called = TRUE, !.reasons = reasons,
                                     !.listed = FALSE, !.is_new = FALSE,
                                     !.raised = TRUE]
               ELSE di' = [called |-> TRUE, stored |-> TRUE, missing |-> r.missing,
                           conflicts |-> r.conflicts, reasons |-> reasons,
                           listed |-> TRUE, is_new |-> ~di.stored, raised |-> FALSE]
    /\ UNCHANGED <<vmem, spkgs, newq, bpkgs, overrides, changes_pending, pool, queue,
                   last, procVars, hv, rd, ls, mf, ss, dc, sl, ev>>

SpecIssues == Init /\ [][DoseYamlToIssues]_vars

\* -------------------------------------------------- _on_event_received
Signers == [trusted : BOOLEAN, valid : BOOLEAN]

\* The loop over the signers, from the i-th on: a signer without a trusted
\* key is passed over; the first signer with a trusted key ends the loop,
\* with signature_trusted set when its signature verifies.
RECURSIVE first_trusted_signature(_, _)
first_trusted_signature(signatures, i) ==
    IF i > Len(signatures) THEN FALSE
    ELSE IF ~signatures[i].trusted THEN first_trusted_signature(signatures, i + 1)
    ELSE signatures[i].valid

\* An event as it arrives, and the setting of the publisher.
InitEvent ==
    /\ InitArchive
    /\ InitProcs
    /\ hv = NoVerify /\ rd = NoReader /\ ls = NoListing
    /\ mf = NoRun /\ ss = NoSession /\ dc = NoDose /\ sl = NoRecords /\ di = NoIssue
    /\ \E signatures \in SeqsUpTo(Signers, MaxEntries), blacklisted \in BOOLEAN,
          present \in BOOLEAN, allow_unsigned \in BOOLEAN :
           /\ ~present => signatures = <<>>
           /\ ev = [NoEvent EXCEPT !.signatures = signatures,
                                   !.blacklisted = blacklisted,
                                   !.present = present,
                                   !.allow_unsigned = allow_unsigned]

OnEventReceived ==
    /\ ~ev.called
    /\ LET signature_trusted == first_trusted_signature(ev.signatures, 1)
       IN  IF ev.blacklisted
           THEN ev' = [ev EXCEPT !.called = TRUE]
           ELSE IF ~ev.present
           THEN ev' = [ev EXCEPT !.called = TRUE, !.raised = TRUE]
           ELSE ev' = [ev EXCEPT !.called = TRUE,
                                 !.signature_trusted = signature_trusted,
                                 !.published = IF signature_trusted THEN "plain"
                                               ELSE IF ev.allow_unsigned
                                               THEN "verify_failed" ELSE "none"]
    /\ UNCHANGED <<vmem, spkgs, newq, bpkgs, overrides, changes_pending, pool, queue,
                   last, calls, procVars, hv, rd, ls, mf, ss, dc, sl, di>>

SpecEvent == InitEvent /\ [][OnEventReceived]_vars

\* ------------------------------------------------ import_source alone
\* An archive that already holds a published source of a lower version whose
\* file is not one of the files of the artifacts imported later.
SeedOther == import_source(EmptyDB, EmptyFS,
                [ver |-> 1, files |-> <<"f2">>, bad |-> 0, expected |-> {}],
                "DEFAULT")

InitSeeded ==
    /\ vmem = SeedOther.db.vmem
    /\ spkgs = SeedOther.db.spkgs
    /\ newq = SeedOther.db.newq
    /\ bpkgs = SeedOther.db.bpkgs
    /\ overrides = SeedOther.db.overrides
    /\ changes_pending = FALSE
    /\ pool = SeedOther.fs.pool
    /\ queue = SeedOther.fs.queue
    /\ last = NoCall
    /\ calls = 0
    /\ InitProcs
    /\ hv = NoVerify
    /\ rd = NoReader
    /\ ls = NoListing
    /\ InitExt

\* Sequences of import_source calls, on an empty archive or on the seeded one.
InitSource == Init \/ InitSeeded

NextSource ==
    /\ calls < MaxCalls
    /\ calls' = calls + 1
    /\ UNCHANGED <<procVars, hv, rd, ls, extVars>>
    /\ ImportSource

SpecSource == InitSource /\ [][NextSource]_vars

\* ------------------------------------------------------ process_changes
Reasons == Err \cup {"SignatureInvalid", "UnknownUploader", "UnknownSuite",
                     "WeakSignature", "DistributionCount", "SourceNotAllowed",
                     "BinaryNotAllowed", "InvalidChanges"}

\* What the handler reads besides the artifacts: the signature of the
\* .changes file, whether a registered uploader matches the signing key and
\* that uploader's flags, the number of distributions, whether the (one)
\* distribution is a suite of the repository, whether the file list parses,
\* and the NEW policy configured for the repo-suite.
UploadChecks ==
    [sig : {"valid", "weak", "invalid"}, known : BOOLEAN, ndist : {1, 2},
     suite_known : BOOLEAN, filesok : BOOLEAN, allow_source : BOOLEAN,
     allow_binary : BOOLEAN, always_review : BOOLEAN]

Defects(c) ==
    {d \in {"sig", "known", "ndist", "suite", "files", "source", "binary"} :
        \/ d = "sig" /\ c.sig # "valid"
        \/ d = "known" /\ ~c.known
        \/ d = "ndist" /\ c.ndist # 1
        \/ d = "suite" /\ ~c.suite_known
        \/ d = "files" /\ ~c.filesok
        \/ d = "source" /\ ~c.allow_source
        \/ d = "binary" /\ ~c.allow_binary}

\* The .dsc of an upload (none or one) and its .deb files, in manifest order.
\* The artifacts of an upload carry the version the .changes file names.
DscLists(v) == {<<>>} \cup {<<a>> : a \in {x \in SourceArtifacts : x.ver = v}}
DebLists(v) ==
    {<<>>} \cup {<<b>> : b \in {x \in BinaryArtifacts : x.srcver = v /\ x.ver = v}}

\* Uploads with one or two defects, carrying a source and a binary.
DefectiveUploads ==
    {[checks |-> c, ver |-> v,
      dsc |-> <<[ver |-> v, files |-> <<"f1">>, bad |-> 0, expected |-> {"foo"}]>>,
      debs |-> <<[name |-> "foo", ver |-> v, srcver |-> v, hashok |-> TRUE]>>,
      policy |-> "DEFAULT"] :
        c \in {x \in UploadChecks :
                    Cardinality(Defects(x)) \in {1, 2} /\ ~x.always_review},
        v \in Versions}

\* Uploads that pass the checks on signature, uploader and distribution.
SoundUploads ==
    UNION {UNION {UNION {
        {[checks |-> c, ver |-> v, dsc |-> d, debs |-> bs, policy |-> pol] :
            d \in DscLists(v), bs \in DebLists(v)} :
        c \in {x \in UploadChecks : Defects(x) = {}}} :
        v \in Versions} :
        pol \in Policies}

Uploads == DefectiveUploads \cup SoundUploads

\* The loop over the .deb/.udeb files of the upload: each is imported in
\* turn, the first failure ends the loop.  dbBefore is the session as it was
\* when the failing import began.
RECURSIVE import_binaries(_, _, _, _)
import_binaries(db, fs, debs, i) ==
    IF i > Len(debs)
    THEN [db |-> db, fs |-> fs, err |-> "None", dbBefore |-> db]
    ELSE LET r == import_binary(db, fs, debs[i])
         IN  IF r.err # "None"
             THEN [db |-> r.db, fs |-> r.fs, err |-> r.err, dbBefore |-> db]
             ELSE import_binaries(r.db, r.fs, debs, i + 1)

\* The policy handed to import_source without the uploader's flag.
UploadPolicySuiteOnly(always_review, suite_policy) == suite_policy

\* "uploader policy beats suite policy"
UploadPolicy(always_review, suite_policy) ==
    IF always_review THEN "ALWAYS_NEW" ELSE suite_policy

\* The handler letting the exception of a failed import pass to its caller.
ReplyPropagatingFailure(raised, reason, db, fs, failed, dbBefore) ==
    [raised |-> raised \/ failed, accepted |-> (~raised /\ ~failed /\ reason = "None"),
     reason |-> reason, db |-> db, fs |-> fs, failed |-> failed,
     dbBefore |-> dbBefore]

\* Reply(...): what process_changes leaves behind.  raised: it ended with an
\* exception; accepted/reason: the returned tuple; db: the session at that
\* time; imported: artifacts whose import was attempted; failed: an import
\* raised (dbBefore: the session when that import began).
Reply(raised, reason, db, fs, failed, dbBefore) ==
    [raised |-> raised, accepted |-> (~raised /\ reason = "None"),
     reason |-> reason, db |-> db, fs |-> fs, failed |-> failed,
     dbBefore |-> dbBefore]

\* The handler with the version memory consulted after the imports instead
\* of before them.
process_changes_ledger_last(db, fs, up) ==
    LET c == up.checks
        sourceful == Len(up.dsc) > 0
        pol == UploadPolicy(c.always_review, up.policy)
        rs == IF sourceful
              THEN import_source(db, fs, up.dsc[1], pol)
              ELSE [db |-> db, fs |-> fs, err |-> "None", is_new |-> FALSE, nq_rows |-> 0]
        rb == import_binaries(rs.db, rs.fs, up.debs, 1)
    IN  IF c.sig = "invalid" THEN Reply(TRUE, "SignatureInvalid", db, fs, FALSE, db)
        ELSE IF ~c.known THEN Reply(TRUE, "UnknownUploader", db, fs, FALSE, db)
        ELSE IF c.sig = "weak" THEN Reply(FALSE, "WeakSignature", db, fs, FALSE, db)
        ELSE IF c.ndist # 1 THEN Reply(FALSE, "DistributionCount", db, fs, FALSE, db)
        ELSE IF sourceful /\ ~c.allow_source
        THEN Reply(FALSE, "SourceNotAllowed", db, fs, FALSE, db)
        ELSE IF ~c.suite_known THEN Reply(TRUE, "UnknownSuite", db, fs, FALSE, db)
        ELSE IF ~c.filesok THEN Reply(FALSE, "InvalidChanges", db, fs, FALSE, db)
        ELSE IF ~c.allow_binary /\ Len(up.debs) > 0
        THEN Reply(FALSE, "BinaryNotAllowed", db, fs, FALSE, db)
        ELSE IF rs.err # "None" THEN Reply(FALSE, rs.err, rs.db, rs.fs, TRUE, db)
        ELSE IF rb.err # "None" THEN Reply(FALSE, rb.err, rb.db, rb.fs, TRUE, rb.dbBefore)
        ELSE IF db.vmem[SrcName] >= up.ver
        THEN Reply(FALSE, "VersionRegression", rb.db, rb.fs, FALSE, db)
        ELSE Reply(FALSE, "None", rb.db, rb.fs, FALSE, db)

\* UploadHandler.process_changes on session db and filesystem fs.
process_changes(db, fs, up) ==
    LET c == up.checks
        sourceful == Len(up.dsc) > 0
        pol == UploadPolicy(c.always_review, up.policy)
        rs == IF sourceful
              THEN import_source(db, fs, up.dsc[1], pol)
              ELSE [db |-> db, fs |-> fs, err |-> "None", is_new |-> FALSE, nq_rows |-> 0]
        rb == import_binaries(rs.db, rs.fs, up.debs, 1)
    IN  IF c.sig = "invalid" THEN Reply(TRUE, "SignatureInvalid", db, fs, FALSE, db)
        ELSE IF ~c.known THEN Reply(TRUE, "UnknownUploader", db, fs, FALSE, db)
        ELSE IF c.sig = "weak" THEN Reply(FALSE, "WeakSignature", db, fs, FALSE, db)
        ELSE IF c.ndist # 1 THEN Reply(FALSE, "DistributionCount", db, fs, FALSE, db)
        ELSE IF sourceful /\ ~c.allow_source
        THEN Reply(FALSE, "SourceNotAllowed", db, fs, FALSE, db)
        ELSE IF ~c.suite_known THEN Reply(TRUE, "UnknownSuite", db, fs, FALSE, db)
        ELSE IF db.vmem[SrcName] >= up.ver
        THEN Reply(FALSE, "VersionRegression", db, fs, FALSE, db)
        ELSE IF ~c.filesok THEN Reply(FALSE, "InvalidChanges", db, fs, FALSE, db)
        ELSE IF ~c.allow_binary /\ Len(up.debs) > 0
        THEN Reply(FALSE, "BinaryNotAllowed", db, fs, FALSE, db)
        ELSE IF rs.err # "None" THEN Reply(FALSE, rs.err, rs.db, rs.fs, TRUE, db)
        ELSE IF rb.err # "None" THEN Reply(FALSE, rb.err, rb.db, rb.fs, TRUE, rb.dbBefore)
        ELSE Reply(FALSE, "None", rb.db, rb.fs, FALSE, db)

\* process_changes called inside one session_scope: the scope commits unless
\* the handler raised.
UploadCall(up) ==
    LET r == process_changes(DB, FS, up)
    IN  [r EXCEPT !.db = session_scope(DB, r.db, r.raised)]

ProcessChanges ==
    \E up \in Uploads :
        LET r == UploadCall(up)
        IN  /\ Install(r.db, r.fs)
            /\ last' = [op |-> "process_changes", ver |-> up.ver, srcver |-> up.ver,
                        err |-> r.reason, is_new |-> FALSE, raised |-> r.raised]

NextUpload ==
    /\ calls < MaxUploads
    /\ calls' = calls + 1
    /\ UNCHANGED <<procVars, hv, rd, ls, extVars>>
    /\ ProcessChanges

SpecUpload == Init /\ [][NextUpload]_vars

\* The handler on an archive whose overrides exist already (the package has
\* been through NEW processing before).
InitReviewed ==
    /\ vmem = EmptyDB.vmem
    /\ spkgs = EmptyDB.spkgs
    /\ newq = EmptyDB.newq
    /\ bpkgs = EmptyDB.bpkgs
    /\ overrides = BinNames
    /\ changes_pending = FALSE
    /\ pool = EmptyFS.pool
    /\ queue = EmptyFS.queue
    /\ last = NoCall
    /\ calls = 0
    /\ InitProcs
    /\ hv = NoVerify
    /\ rd = NoReader
    /\ ls = NoListing
    /\ InitExt

SpecReviewed == InitReviewed /\ [][NextUpload]_vars

\* ------------------------------------ the files of one .changes file
\* A file of the upload as the manifest lists it: a .dsc or a .deb/.udeb
\* (kind), whether its name holds a path separator, and whether the artifact
\* passes the hash verification of its importer.
UploadFiles(v) == [kind : {"dsc", "deb"}, slash : BOOLEAN, ver : {v}, ok : BOOLEAN]

DscOf(file) == [ver |-> file.ver, files |-> <<"f1">>,
                bad |-> IF file.ok THEN 0 ELSE 1, expected |-> {"foo"}]
DebOf(file) == [name |-> "foo", ver |-> file.ver, srcver |-> file.ver, hashok |-> file.ok]

\* The second loop going on with the next file after an import that failed.
RECURSIVE import_upload_binaries_continuing(_, _, _, _, _)
import_upload_binaries_continuing(db, fs, files, i, trace) ==
    IF i > Len(files)
    THEN [db |-> db, fs |-> fs, accepted |-> TRUE, trace |-> trace]
    ELSE IF files[i].kind # "deb"
    THEN import_upload_binaries_continuing(db, fs, files, i + 1, trace)
    ELSE IF files[i].slash
    THEN [db |-> db, fs |-> fs, accepted |-> FALSE, trace |-> trace]
    ELSE LET r == import_binary(db, fs, DebOf(files[i]))
             t == Append(trace, [idx |-> i, err |-> r.err])
         IN  IF r.err # "None"
             THEN import_upload_binaries_continuing(db, fs, files, i + 1, t)
             ELSE import_upload_binaries_continuing(r.db, r.fs, files, i + 1, t)

\* The second loop of process_changes, from the i-th file on: every
\* .deb/.udeb is imported; a name with a path separator or a failed import
\* ends the call.  trace: the importer calls made, with their outcome.
RECURSIVE import_upload_binaries(_, _, _, _, _)
import_upload_binaries(db, fs, files, i, trace) ==
    IF i > Len(files)
    THEN [db |-> db, fs |-> fs, accepted |-> TRUE, trace |-> trace]
    ELSE IF files[i].kind # "deb"
    THEN import_upload_binaries(db, fs, files, i + 1, trace)
    ELSE IF files[i].slash
    THEN [db |-> db, fs |-> fs, accepted |-> FALSE, trace |-> trace]
    ELSE LET r == import_binary(db, fs, DebOf(files[i]))
             t == Append(trace, [idx |-> i, err |-> r.err])
         IN  IF r.err # "None"
             THEN [db |-> r.db, fs |-> r.fs, accepted |-> FALSE, trace |-> t]
             ELSE import_upload_binaries(r.db, r.fs, files, i + 1, t)

\* Index of the first .dsc of the manifest (0: none).
FirstDsc(files) ==
    LET ds == {i \in 1..Len(files) : files[i].kind = "dsc"}
    IN  IF ds = {} THEN 0 ELSE CHOOSE i \in ds : \A j \in ds : i <= j

\* The two loops of process_changes over the files of the upload: the first
\* .dsc is imported and the loop left, then the binaries.
import_upload_files(db, fs, files, policy) ==
    LET d == FirstDsc(files)
        rs == import_source(db, fs, DscOf(files[d]), policy)
    IN  IF d = 0
        THEN import_upload_binaries(db, fs, files, 1, <<>>)
        ELSE IF files[d].slash
        THEN [db |-> db, fs |-> fs, accepted |-> FALSE, trace |-> <<>>]
        ELSE IF rs.err # "None"
        THEN [db |-> rs.db, fs |-> rs.fs, accepted |-> FALSE,
              trace |-> <<[idx |-> d, err |-> rs.err]>>]
        ELSE import_upload_binaries(rs.db, rs.fs, files, 1,
                                    <<[idx |-> d, err |-> "None"]>>)

\* One upload that passed the checks of process_changes, on an archive
\* without overrides or with the overrides of the package.
InitFiles ==
    /\ vmem = EmptyDB.vmem
    /\ spkgs = EmptyDB.spkgs
    /\ newq = EmptyDB.newq
    /\ bpkgs = EmptyDB.bpkgs
    /\ overrides \in {EmptyDB.overrides, BinNames}
    /\ changes_pending = EmptyDB.changes_pending
    /\ pool = EmptyFS.pool
    /\ queue = EmptyFS.queue
    /\ last = NoCall
    /\ calls = 0
    /\ InitProcs
    /\ hv = NoVerify /\ rd = NoReader /\ ls = NoListing
    /\ ss = NoSession /\ dc = NoDose /\ sl = NoRecords /\ di = NoIssue /\ ev = NoEvent
    /\ \E v \in Versions : \E files \in SeqsUpTo(UploadFiles(v), MaxEntries) :
       \E review \in BOOLEAN :
           mf = [NoRun EXCEPT !.files = files, !.review = review]

ProcessFiles ==
    /\ ~mf.called
    /\ LET r == import_upload_files(DB, FS, mf.files, UploadPolicy(mf.review, "DEFAULT"))
       IN  /\ Install(r.db, r.fs)
           /\ mf' = [mf EXCEPT !.called = TRUE, !.accepted = r.accepted,
                               !.trace = r.trace]
    /\ UNCHANGED <<last, calls, procVars, hv, rd, ls, ss, dc, sl, di, ev>>

SpecFiles == InitFiles /\ [][ProcessFiles]_vars

\* ------------------------------------------- session_scope, step by step
\* Where session_scope goes when the block under `yield` has ended.
AfterBlockAlwaysCommit(raised) == "commit"

AfterBlock(raised) == IF raised THEN "except" ELSE "commit"

\* session = session_factory()
ScopeEnter ==
    /\ ss.pc \in {"none", "done"}
    /\ calls < MaxCalls
    /\ calls' = calls + 1
    /\ ss' = [NoSession EXCEPT !.pc = "block", !.session = DB, !.before = DB]
    /\ UNCHANGED <<vmem, spkgs, newq, bpkgs, overrides, changes_pending, pool, queue, last>>

\* yield session: the block imports a source package with the session; the
\* files it places are on disk at once, its rows are in the session.
ScopeBlock ==
    /\ ss.pc = "block"
    /\ \E a \in SourceArtifacts, policy \in Policies :
           LET r == import_source(ss.session, FS, a, policy)
           IN  /\ ss' = [ss EXCEPT !.pc = AfterBlock(r.err # "None"),
                                   !.session = r.db,
                                   !.raised = r.err # "None",
                                   !.pending = r.err # "None"]
               /\ pool' = r.fs.pool
               /\ queue' = r.fs.queue
               /\ last' = [op |-> "import_source", ver |-> a.ver, srcver |-> a.ver,
                           err |-> r.err, is_new |-> r.is_new, raised |-> r.err # "None"]
    /\ UNCHANGED <<vmem, spkgs, newq, bpkgs, overrides, changes_pending, calls>>

\* session.commit(): the rows of the session reach the database, or the
\* database refuses and commit() raises.
ScopeCommit ==
    /\ ss.pc = "commit"
    /\ \/ /\ Install(ss.session, FS)
          /\ ss' = [ss EXCEPT !.pc = "finally", !.commits = @ + 1, !.committed = TRUE]
       \/ /\ ss' = [ss EXCEPT !.pc = "except", !.commits = @ + 1, !.pending = TRUE]
          /\ UNCHANGED <<vmem, spkgs, newq, bpkgs, overrides, changes_pending, pool, queue>>
    /\ UNCHANGED <<last, calls>>

\* except: session.rollback(); raise
ScopeRollback ==
    /\ ss.pc = "except"
    /\ ss' = [ss EXCEPT !.pc = "finally", !.rollbacks = @ + 1, !.session = DB]
    /\ UNCHANGED <<vmem, spkgs, newq, bpkgs, overrides, changes_pending, pool, queue,
                   last, calls>>

\* finally: session.close()
ScopeClose ==
    /\ ss.pc = "finally"
    /\ ss' = [ss EXCEPT !.pc = "done", !.closes = @ + 1]
    /\ UNCHANGED <<vmem, spkgs, newq, bpkgs, overrides, changes_pending, pool, queue,
                   last, calls>>

NextScope ==
    /\ UNCHANGED <<procVars, hv, rd, ls, mf, dc, sl, di, ev>>
    /\ \/ ScopeEnter
       \/ ScopeBlock
       \/ ScopeCommit
       \/ ScopeRollback
       \/ ScopeClose

SpecScope == Init /\ [][NextScope]_vars

\* ---------------------------------- fetch_depcheck_issues, step by step
DoseSuites == {"s1", "s2"}
DoseFunctions == {"build_depcheck", "depcheck"}

\* process_file_lock(name, wait=True): the name is free when no process
\* holds the lock of that suite.
LockFree(suite) == \A q \in Procs : ~(dc[q].held /\ dc[q].suite = suite)

\* The fetch function with the conversion loop inside its `with` block.
DoseNextUpdatingInside(at, ok, held) ==
    CASE at = "read" -> IF ok THEN "run" ELSE "raise"
      [] at = "run" -> IF ok THEN "update" ELSE "raise"
      [] at = "update" -> IF held THEN "exit" ELSE "done"
      [] at = "exit" -> "done"
      [] at = "raise" -> "failed"

\* The order of the steps of fetch_build_depcheck_issues and
\* fetch_depcheck_issues: inside the `with` block the indices are read and
\* the tool is run (either may raise); the block is left; then the loop
\* over the reports converts them to issue records.
DoseNext(at, ok, held) ==
    CASE at = "read" -> IF ok THEN "run" ELSE "raise"
      [] at = "run" -> IF ok THEN "exit" ELSE "raise"
      [] at = "exit" -> "update"
      [] at = "update" -> "done"
      [] at = "raise" -> "failed"

DoseFetch(p) ==
    /\ dc[p].pc \in {"idle", "done", "failed"}
    /\ calls < MaxCalls
    /\ calls' = calls + 1
    /\ \E fn \in DoseFunctions, suite \in DoseSuites :
           dc' = [dc EXCEPT ![p] = [@ EXCEPT !.pc = "wait", !.fn = fn, !.suite = suite,
                                             !.todo = 0]]

\* with process_file_lock(...): entered once the lock is free
DoseAcquire(p) ==
    /\ dc[p].pc = "wait"
    /\ LockFree(dc[p].suite)
    /\ dc' = [dc EXCEPT ![p] = [@ EXCEPT !.pc = "read", !.held = TRUE]]
    /\ UNCHANGED calls

\* _get_full_index_info: the index files are read; no index: exception
DoseReadIndices(p) ==
    /\ dc[p].pc = "read"
    /\ \E ok \in BOOLEAN :
           dc' = [dc EXCEPT ![p] = [@ EXCEPT !.pc = DoseNext("read", ok, dc[p].held),
                                             !.unlocked_read = @ \/ ~dc[p].held]]
    /\ UNCHANGED calls

\* _execute_dose: the tool runs and reports up to MaxEntries packages, or
\* fails: exception
DoseRunTool(p) ==
    /\ dc[p].pc = "run"
    /\ \E ok \in BOOLEAN, n \in 0..MaxEntries :
           dc' = [dc EXCEPT ![p] = [@ EXCEPT !.pc = DoseNext("run", ok, dc[p].held),
                                             !.todo = IF ok THEN n ELSE 0,
                                             !.unlocked_read = @ \/ ~dc[p].held]]
    /\ UNCHANGED calls

\* the `with` block is left, by its end or by an exception
DoseRelease(p) ==
    /\ dc[p].pc \in {"exit", "raise"}
    /\ dc' = [dc EXCEPT ![p] = [@ EXCEPT !.pc = DoseNext(dc[p].pc, TRUE, FALSE),
                                         !.held = FALSE]]
    /\ UNCHANGED calls

\* _dose_yaml_to_issues: one report entry becomes an issue record of the
\* database; with none left the function returns
DoseUpdate(p) ==
    /\ dc[p].pc = "update"
    /\ IF dc[p].todo > 0
       THEN dc' = [dc EXCEPT ![p] = [@ EXCEPT !.todo = @ - 1,
                                              !.locked_update = @ \/ dc[p].held]]
       ELSE dc' = [dc EXCEPT ![p] = [@ EXCEPT !.pc = DoseNext("update", TRUE, dc[p].held)]]
    /\ UNCHANGED calls

NextDose ==
    /\ UNCHANGED <<vmem, spkgs, newq, bpkgs, overrides, changes_pending, pool, queue,
                   last, procVars, hv, rd, ls, mf, ss, sl, di, ev>>
    /\ \/ \E p \in Procs : DoseFetch(p)
       \/ \E p \in Procs : DoseAcquire(p)
       \/ \E p \in Procs : DoseReadIndices(p)
       \/ \E p \in Procs : DoseRunTool(p)
       \/ \E p \in Procs : DoseRelease(p)
       \/ \E p \in Procs : DoseUpdate(p)

SpecDose == Init /\ [][NextDose]_vars

\* ------------------------------------------------- concurrent processes
\* Several processes work on the same repo-suite: importers, each running
\* import_binary in a session of its own, and the dependency checker
\* (DoseDebcheck.fetch_depcheck_issues / fetch_build_depcheck_issues), which
\* takes the publish lock of the repo-suite while it reads the indices.
\* The steps of an importer are the points where import_binary touches the
\* database or the filesystem.

\* The archive the processes start from: source versions 1 and 2 are
\* published and the override of the binary exists.
Seed1 == import_source(EmptyDB, EmptyFS,
            [ver |-> 1, files |-> <<"f1">>, bad |-> 0, expected |-> {"foo"}],
            "NEVER_NEW")
Seed2 == import_source(Seed1.db, Seed1.fs,
            [ver |-> 2, files |-> <<"f2">>, bad |-> 0, expected |-> {"foo"}],
            "DEFAULT")

SeededVersions == {v \in Versions : PublishedSource(Seed2.db, v)}

InitConc ==
    /\ vmem = Seed2.db.vmem
    /\ spkgs = Seed2.db.spkgs
    /\ newq = Seed2.db.newq
    /\ bpkgs = Seed2.db.bpkgs
    /\ overrides = Seed2.db.overrides
    /\ changes_pending = FALSE
    /\ pool = Seed2.fs.pool
    /\ queue = Seed2.fs.queue
    /\ last = NoCall
    /\ calls = 0
    /\ InitProcs
    /\ hv = NoVerify
    /\ rd = NoReader
    /\ ls = NoListing
    /\ InitExt

\* A process is handed a binary to import.
Begin(p) ==
    /\ pc[p] = "idle"
    /\ \E b \in {x \in BinaryArtifacts : x.srcver \in SeededVersions /\ x.hashok} :
        job' = [job EXCEPT ![p] = b]
    /\ pc' = [pc EXCEPT ![p] = "lookup"]
    /\ UNCHANGED <<vmem, spkgs, newq, bpkgs, overrides, changes_pending, pool,
                   queue, last, calls, hv, rd, ls, extVars, res, lock>>

\* Source lookup, hash verification and override lookup.
Lookup(p) ==
    /\ pc[p] = "lookup"
    /\ LET b == job[p]
           err == IF ~PublishedSource(DB, b.srcver) THEN "OrphanedBinary"
                  ELSE IF ~b.hashok THEN "ChecksumMismatch"
                  ELSE IF b.name \notin overrides THEN "MissingOverride"
                  ELSE "None"
       IN  /\ res' = [res EXCEPT ![p] = err]
           /\ pc' = [pc EXCEPT ![p] = IF err = "None" THEN "check" ELSE "done"]
    /\ UNCHANGED <<vmem, spkgs, newq, bpkgs, overrides, changes_pending, pool,
                   queue, last, calls, hv, rd, ls, extVars, job, lock>>

\* os.path.exists(pool_fname_full)
CheckDest(p) ==
    /\ pc[p] = "check"
    /\ LET occupied == pool[DebPath(job[p].name, job[p].ver)] # Absent
       IN  /\ res' = [res EXCEPT ![p] = IF occupied THEN "DestinationExists" ELSE "None"]
           /\ pc' = [pc EXCEPT ![p] = IF occupied THEN "done" ELSE "copy"]
    /\ UNCHANGED <<vmem, spkgs, newq, bpkgs, overrides, changes_pending, pool,
                   queue, last, calls, hv, rd, ls, extVars, job, lock>>

\* _copy_or_move(deb_fname, pool_fname_full): shutil.copy replaces the target.
Copy(p) ==
    /\ pc[p] = "copy"
    /\ pool' = [pool EXCEPT ![DebPath(job[p].name, job[p].ver)] = job[p].srcver]
    /\ pc' = [pc EXCEPT ![p] = "register"]
    /\ UNCHANGED <<vmem, spkgs, newq, bpkgs, overrides, changes_pending,
                   queue, last, calls, hv, rd, ls, extVars, job, res, lock>>

\* A BinaryPackage row with the identity (repository, name, version,
\* architecture) of the new one is already committed.
DuplicateBinary(db, b) == <<b.name, b.ver>> \in db.bpkgs

\* session.add(af), session.add(bpkg), package_mark_published(),
\* changes_pending = True, flush and commit.  The transaction fails when
\* another process has committed the same package in the meantime.
Register(p) ==
    /\ pc[p] = "register"
    /\ IF DuplicateBinary(DB, job[p])
       THEN /\ res' = [res EXCEPT ![p] = "DuplicateBinary"]
            /\ UNCHANGED <<bpkgs, vmem, changes_pending>>
       ELSE /\ bpkgs' = bpkgs \cup {<<job[p].name, job[p].ver>>}
            /\ vmem' = package_mark_published(DB, job[p].name, job[p].ver).vmem
            /\ changes_pending' = TRUE
            /\ UNCHANGED res
    /\ pc' = [pc EXCEPT ![p] = "done"]
    /\ UNCHANGED <<spkgs, newq, overrides, pool, queue, last, calls, hv, rd, ls, extVars, job, lock>>

\* process_file_lock('publish_<repo>-<suite>', wait=True): entered when free.
DoseLock ==
    /\ lock = "free"
    /\ lock' = "dose"
    /\ UNCHANGED <<vmem, spkgs, newq, bpkgs, overrides, changes_pending, pool,
                   queue, last, calls, hv, rd, ls, extVars, pc, job, res>>

\* The index files were read and the report generated: the lock is released.
DoseUnlock ==
    /\ lock = "dose"
    /\ lock' = "free"
    /\ UNCHANGED <<vmem, spkgs, newq, bpkgs, overrides, changes_pending, pool,
                   queue, last, calls, hv, rd, ls, extVars, pc, job, res>>

NextConc ==
    \/ \E p \in Procs : Begin(p)
    \/ \E p \in Procs : Lookup(p)
    \/ \E p \in Procs : CheckDest(p)
    \/ \E p \in Procs : Copy(p)
    \/ \E p \in Procs : Register(p)
    \/ DoseLock
    \/ DoseUnlock

SpecConc == InitConc /\ [][NextConc]_vars

\* ------------------------------------- concurrent source imports
\* Two processes run import_source on the same repo-suite, each in a session
\* of its own.  A session sees what other sessions have committed; its own
\* rows reach the database with its commit.  The steps of a process are the
\* version-memory query at the start of import_source and the rest of the
\* call with the commit of its session.
SourceOf(v) == [ver |-> v, files |-> IF v % 2 = 1 THEN <<"f1">> ELSE <<"f2">>,
                bad |-> 0, expected |-> {"foo"}]

\* The database as import_source finds it after its version-memory query
\* has passed: the query is not made again.
PastLedgerQuery(db) == [db EXCEPT !.vmem[SrcName] = NoVersion]

\* A process is handed a source package, of another version than the one
\* the other process is working on.
LedgerBegin(p) ==
    /\ pc[p] \in {"idle", "done"}
    /\ calls < MaxCalls
    /\ calls' = calls + 1
    /\ \E v \in Versions :
           /\ \A q \in Procs \ {p} : pc[q] \in {"check", "import"} => job[q].ver # v
           /\ job' = [job EXCEPT ![p] = [IdleJob EXCEPT !.ver = v, !.srcver = v]]
    /\ pc' = [pc EXCEPT ![p] = "check"]
    /\ res' = [res EXCEPT ![p] = "None"]
    /\ UNCHANGED <<vmem, spkgs, newq, bpkgs, overrides, changes_pending, pool, queue,
                   last, lock, hv, rd, ls, extVars>>

\* The version-memory query: a higher version seen before ends the call.
LedgerCheck(p) ==
    /\ pc[p] = "check"
    /\ IF SeenHigher(DB, SrcName, job[p].ver)
       THEN /\ pc' = [pc EXCEPT ![p] = "done"]
            /\ res' = [res EXCEPT ![p] = "VersionRegression"]
       ELSE /\ pc' = [pc EXCEPT ![p] = "import"]
            /\ res' = res
    /\ UNCHANGED <<vmem, spkgs, newq, bpkgs, overrides, changes_pending, pool, queue,
                   last, calls, job, lock, hv, rd, ls, extVars>>

\* The rest of import_source, package_mark_published included, and the end
\* of the session_scope around it.
LedgerImport(p) ==
    /\ pc[p] = "import"
    /\ \E policy \in Policies :
           LET r == import_source(PastLedgerQuery(DB), FS, SourceOf(job[p].ver), policy)
               wrote == r.err = "None" /\ ~r.is_new
               db == session_scope(DB, [r.db EXCEPT !.vmem = IF wrote THEN @ ELSE vmem],
                                   r.err # "None")
           IN  /\ Install(db, r.fs)
               /\ res' = [res EXCEPT ![p] = r.err]
               /\ last' = [op |-> "import_source", ver |-> job[p].ver,
                           srcver |-> job[p].ver, err |-> r.err, is_new |-> r.is_new,
                           raised |-> r.err # "None"]
    /\ pc' = [pc EXCEPT ![p] = "done"]
    /\ UNCHANGED <<calls, job, lock, hv, rd, ls, extVars>>

NextLedger ==
    \/ \E p \in Procs : LedgerBegin(p)
    \/ \E p \in Procs : LedgerCheck(p)
    \/ \E p \in Procs : LedgerImport(p)

SpecLedger == Init /\ [][NextLedger]_vars

\* ============================================================ properties
Imports == {"import_source", "import_binary"}

\* The pool route of import_source, from the policy and the overrides.
SourceGoesToPool(a, policy) ==
    \/ policy = "NEVER_NEW"
    \/ (a.expected \subseteq overrides /\ policy # "ALWAYS_NEW")

SourceInSuite(v) == spkgs[v].exists /\ spkgs[v].inSuite
SourceInNew(v) == v \in newq

\* C1: over every successful import_source or import_binary call, the
\* version memory of every package name never decreases.
LedgerNeverDecreases ==
    [][(last'.op \in Imports /\ last'.err = "None")
        => \A n \in PkgNames : vmem'[n] >= vmem[n]]_vars

\* C2: an import_source or import_binary proposing, for a package name with
\* a ledger entry, a version lower than or equal to the recorded one fails
\* with a version-regression error and changes neither database nor files.
LowerOrEqualAlwaysRejected ==
    /\ \A a \in SourceArtifacts, policy \in Policies :
        (vmem[SrcName] # NoVersion /\ a.ver <= vmem[SrcName])
            => LET r == SourceCall(a, policy)
               IN  r.err = "VersionRegression" /\ r.db = DB /\ r.fs = FS
    /\ \A b \in BinaryArtifacts :
        (vmem[b.name] # NoVersion /\ b.ver <= vmem[b.name])
            => LET r == BinaryCall(b)
               IN  r.err = "VersionRegression" /\ r.db = DB /\ r.fs = FS

\* C3: no import replaces or alters a file that exists in the pool; an import
\* routed to the pool whose destination is occupied fails, with a
\* destination-exists error once the checks before the placement have passed.
PoolFileNeverReplaced ==
    /\ \A a \in SourceArtifacts, policy \in Policies :
        LET r == SourceCall(a, policy)
            occupied == \E f \in Range(a.files) : pool[SrcPath(f)] # Absent
        IN  /\ \A p \in Paths : pool[p] # Absent => r.fs.pool[p] = pool[p]
            /\ (SourceGoesToPool(a, policy) /\ occupied) => r.err # "None"
            /\ (SourceGoesToPool(a, policy) /\ occupied /\ a.bad = 0
                    /\ vmem[SrcName] <= a.ver)
                => r.err = "DestinationExists"
    /\ \A b \in BinaryArtifacts :
        LET r == BinaryCall(b)
            occupied == pool[DebPath(b.name, b.ver)] # Absent
        IN  /\ \A p \in Paths : pool[p] # Absent => r.fs.pool[p] = pool[p]
            /\ (SourceInSuite(b.srcver) /\ occupied) => r.err # "None"
            /\ (SourceInSuite(b.srcver) /\ occupied /\ b.hashok /\ b.name \in overrides)
                => r.err = "DestinationExists"

\* C3 witness: an import to the pool found its destination occupied.
DestinationWasOccupied ==
    /\ last.op \in Imports
    /\ last.err = "DestinationExists"
    /\ ~last.is_new
    /\ \E p \in Paths : pool[p] # Absent

\* C7: import_binary of a binary whose source is neither in the suite nor
\* pending in NEW fails with an orphaned-binary error, with valid or invalid
\* checksums, and changes neither files nor database.
OrphanedBinaryRejected ==
    \A b \in BinaryArtifacts :
        (~SourceInSuite(b.srcver) /\ ~SourceInNew(b.srcver))
            => LET r == BinaryCall(b)
               IN  r.err = "OrphanedBinary" /\ r.db = DB /\ r.fs = FS

\* C7 witness: a binary was rejected as orphaned while another source version
\* was known to the archive.
OrphanRejected ==
    /\ last.op = "import_binary"
    /\ last.err = "OrphanedBinary"
    /\ \E v \in Versions : spkgs[v].exists

\* C8: a binary whose source is only pending in NEW is copied to the NEW-queue
\* directory and nothing else changes: no database row, no ledger change, no
\* pending-changes flag, no pool file.
NewBinaryOnlyFiled ==
    \A b \in BinaryArtifacts :
        (~SourceInSuite(b.srcver) /\ SourceInNew(b.srcver))
            => LET r == BinaryCall(b)
                   path == DebPath(b.name, b.ver)
               IN  /\ r.db = DB
                   /\ r.fs.pool = pool
                   /\ \A p \in Paths \ {path} : r.fs.queue[p] = queue[p]
                   /\ b.hashok => (r.err = "None" /\ r.fs.queue[path] = b.srcver)
                   /\ ~b.hashok => (r.err = "ChecksumMismatch" /\ r.fs = FS)

\* C8 witness: a binary was filed to the NEW queue.
BinaryFiledToNew ==
    /\ last.op = "import_binary"
    /\ last.err = "None"
    /\ last.is_new
    /\ queue[DebPath("foo", last.ver)] = last.srcver

\* The binary artifact b lies in the NEW-queue directory, its source is now in
\* the suite and its override exists.
FiledAndCleared(b) ==
    /\ b.hashok
    /\ queue[DebPath(b.name, b.ver)] = b.srcver
    /\ SourceInSuite(b.srcver)
    /\ b.name \in overrides

ImportedToPool(b, r) ==
    /\ r.err = "None"
    /\ r.fs.pool[DebPath(b.name, b.ver)] = b.srcver
    /\ <<b.name, b.ver>> \in r.db.bpkgs
    /\ r.db.vmem[b.name] = b.ver

\* C9 (as claimed): a binary that was filed to NEW is imported successfully
\* once its source is published and its override exists.
FiledBinaryThenSucceeds ==
    \A b \in BinaryArtifacts :
        FiledAndCleared(b) => ImportedToPool(b, BinaryCall(b))

\* C9 (amended): a binary that was filed to NEW is imported successfully once
\* its source is published and its override exists, provided no file occupies
\* the binary's pool path.
FiledBinaryThenSucceedsIfFree ==
    \A b \in BinaryArtifacts :
        (FiledAndCleared(b) /\ pool[DebPath(b.name, b.ver)] = Absent)
            => ImportedToPool(b, BinaryCall(b))

\* C9 witness: a binary that lies in the NEW-queue directory has been imported
\* to the pool and registered.
FiledBinaryImported ==
    /\ last.op = "import_binary"
    /\ last.err = "None"
    /\ ~last.is_new
    /\ queue[DebPath("foo", last.ver)] = last.srcver
    /\ pool[DebPath("foo", last.ver)] = last.srcver
    /\ <<"foo", last.ver>> \in bpkgs

\* C10: import_binary of a binary whose source is published but which has no
\* override fails (with a missing-override error once its hashes verified)
\* and leaves pool, database, ledger and pending-changes flag unchanged.
MissingOverrideRejected ==
    \A b \in BinaryArtifacts :
        (SourceInSuite(b.srcver) /\ b.name \notin overrides)
            => LET r == BinaryCall(b)
               IN  /\ r.err # "None"
                   /\ b.hashok => r.err = "MissingOverride"
                   /\ r.db = DB
                   /\ r.fs = FS

\* C10 witness: a binary of a published source was rejected for its missing
\* override.
MissingOverrideSeen ==
    /\ last.op = "import_binary"
    /\ last.err = "MissingOverride"
    /\ SourceInSuite(last.srcver)

\* C6: when an artifact's import fails inside process_changes run in one
\* session_scope, the database afterwards holds nothing the failed import
\* created, changed or deleted: it is the session as it was when that import
\* began.
FailedImportLeavesNoRows ==
    \A up \in Uploads :
        LET r == UploadCall(up)
        IN  r.failed => r.db = r.dbBefore

\* C4: when two concurrent imports target the same pool file and both have
\* ended, exactly one has succeeded, the other has failed with a
\* destination-exists error, and the file holds the content of the one that
\* succeeded.
ExactlyOneImportWins ==
    \A p \in Procs, q \in Procs :
        (/\ p # q
         /\ pc[p] = "done" /\ pc[q] = "done"
         /\ DebPath(job[p].name, job[p].ver) = DebPath(job[q].name, job[q].ver)
         /\ res[p] = "None")
            => /\ res[q] = "DestinationExists"
               /\ pool[DebPath(job[p].name, job[p].ver)] = job[p].srcver

\* C5: an importer that is placing a file and setting the pending-changes
\* flag of the repo-suite holds its publish lock, so it never does so while
\* the dependency checker holds the lock.
ImportHoldsPublishLock ==
    \A p \in Procs :
        pc[p] \in {"copy", "register"} => lock = p

\* C11: a source that import_source imports goes to the pool under the
\* never-NEW policy, with every missing override of its expected binaries
\* registered; otherwise to the NEW queue when an override is missing or the
\* policy is always-NEW; otherwise to the pool.  Its files land under the
\* NEW-queue root exactly when the NEW route was taken, else under the archive
\* root.
SourceRoutedByPolicy ==
    \A a \in SourceArtifacts, policy \in Policies :
        LET r == SourceCall(a, policy)
            toPool == SourceGoesToPool(a, policy)
        IN  r.err = "None" =>
              /\ r.is_new = ~toPool
              /\ policy = "NEVER_NEW" => (~r.is_new /\ a.expected \subseteq r.db.overrides)
              /\ policy # "NEVER_NEW" => r.db.overrides = overrides
              /\ ~toPool =>
                    /\ \A f \in Range(a.files) : r.fs.queue[SrcPath(f)] = a.ver
                    /\ r.fs.pool = pool
                    /\ a.ver \in r.db.newq
              /\ toPool =>
                    /\ \A f \in Range(a.files) : r.fs.pool[SrcPath(f)] = a.ver
                    /\ \A p \in Paths : r.fs.queue[p] \in {Absent, queue[p]}
                    /\ r.db.spkgs[a.ver].inSuite
                    /\ a.ver \notin r.db.newq

\* C11 witness: the first import went to the pool and registered the overrides
\* that were missing (never-NEW policy).
NeverNewRegisteredOverrides ==
    /\ calls = 1
    /\ last.op = "import_source"
    /\ last.err = "None"
    /\ ~last.is_new
    /\ overrides # {}
    /\ pool[SrcPath("f1")] = last.ver
    /\ \A p \in Paths : queue[p] = Absent

\* The uploads with a source to a suite with the never-NEW policy.
NeverNewUploads == {up \in Uploads : Len(up.dsc) > 0 /\ up.policy = "NEVER_NEW"}

\* C12 (as claimed): an upload to a suite with the never-NEW policy never puts
\* its source into the NEW queue, whatever the uploader's always-review flag.
NeverNewSuiteNeverQueues ==
    \A up \in NeverNewUploads : UploadCall(up).db.newq \subseteq newq

\* C12 (amended): an upload to a suite with the never-NEW policy never puts
\* its source into the NEW queue and has its missing overrides registered,
\* unless the uploader's always-review flag is set: then the uploader's flag
\* beats the suite policy and the accepted source is put into the NEW queue.
NeverNewSuiteUnlessReviewed ==
    \A up \in NeverNewUploads :
               LET r == UploadCall(up)
                   a == up.dsc[1]
               IN  /\ ~up.checks.always_review =>
                        /\ r.db.newq \subseteq newq
                        /\ \A p \in Paths : r.fs.queue[p] \in {Absent, queue[p]}
                        /\ r.accepted =>
                              /\ a.expected \subseteq r.db.overrides
                              /\ up.ver \notin r.db.newq
                              /\ r.db.spkgs[up.ver].inSuite
                   /\ (up.checks.always_review /\ r.accepted) =>
                        /\ up.ver \in r.db.newq
                        /\ \A f \in Range(a.files) : r.fs.queue[SrcPath(f)] = up.ver
                        /\ \A f \in FNames : r.fs.pool[SrcPath(f)] = pool[SrcPath(f)]

\* C12 witness: the first upload was accepted into the pool and its missing
\* overrides were registered (never-NEW suite, no review flag).
NeverNewUploadPublished ==
    /\ calls = 1
    /\ last.op = "process_changes"
    /\ last.err = "None"
    /\ newq = {}
    /\ overrides # {}
    /\ spkgs[last.ver].inSuite
    /\ \A p \in Paths : queue[p] = Absent

\* An upload of one source and one binary of it, both with matching hashes,
\* by a registered uploader with a valid signature who may upload sources and
\* binaries and is not under review, to a suite with the default policy; the
\* version is new to the archive and the places of its files in directory dir
\* are free.
PlainUploads ==
    {up \in SoundUploads :
        /\ Len(up.dsc) = 1 /\ Len(up.debs) = 1
        /\ up.policy = "DEFAULT"
        /\ ~up.checks.always_review
        /\ up.dsc[1].bad = 0
        /\ up.debs[1].hashok
        /\ up.debs[1].name \in up.dsc[1].expected}

FreshUpload(up, dir) ==
    /\ vmem[SrcName] < up.ver
    /\ ~spkgs[up.ver].exists
    /\ \A f \in Range(up.dsc[1].files) : dir[SrcPath(f)] = Absent

\* The binary of the upload lies in the NEW-queue directory and nothing of it
\* is registered or published.
FiledNotRegistered(up, r) ==
    /\ up.ver \in r.db.newq
    /\ ~r.db.spkgs[up.ver].inSuite
    /\ r.fs.queue[DebPath(up.debs[1].name, up.debs[1].ver)] = up.ver
    /\ r.db.bpkgs = bpkgs
    /\ r.db.vmem = vmem
    /\ r.fs.pool = pool

\* C13 (as claimed): process_changes for a source and a binary of a package
\* without override returns accepted = false; the binary is filed, not
\* registered.
NewUploadReportedPending ==
    \A up \in PlainUploads :
        (FreshUpload(up, queue) /\ up.debs[1].name \notin overrides)
            => LET r == UploadCall(up)
               IN  ~r.accepted /\ FiledNotRegistered(up, r)

\* C13 (amended): process_changes for a source and a binary of a package
\* without override returns accepted = true with no reason; the source is
\* pending in NEW and the binary is filed, not registered.
NewUploadAcceptedAndFiled ==
    \A up \in PlainUploads :
        (FreshUpload(up, queue) /\ up.debs[1].name \notin overrides)
            => LET r == UploadCall(up)
               IN  /\ r.accepted /\ ~r.raised /\ r.reason = "None"
                   /\ FiledNotRegistered(up, r)

\* C13 witness: the first upload left its source pending in NEW and its
\* binary in the NEW-queue directory, and was reported as processed.
UploadWentToNew ==
    /\ calls = 1
    /\ last.op = "process_changes"
    /\ last.err = "None"
    /\ last.ver \in newq
    /\ \E v \in Versions : queue[DebPath("foo", v)] = last.ver
    /\ bpkgs = {}
    /\ overrides = {}

\* C14: process_changes for a source and a binary of a package whose override
\* exists (default policy, uploader permitted both kinds, no ledger entry yet)
\* returns accepted = true; afterwards the ledger reads the uploaded version,
\* both artifacts are in the pool at their paths and no NEW-queue entry exists
\* for the package version.
ReviewedUploadPublished ==
    \A up \in PlainUploads :
        (/\ FreshUpload(up, pool)
         /\ up.dsc[1].expected \subseteq overrides
         /\ up.debs[1].ver = up.ver
         /\ vmem[SrcName] = NoVersion)
            => LET r == UploadCall(up)
                   b == up.debs[1]
               IN  /\ r.accepted /\ ~r.raised /\ r.reason = "None"
                   /\ r.db.vmem[SrcName] = up.ver
                   /\ r.db.vmem[b.name] = up.ver
                   /\ \A f \in Range(up.dsc[1].files) : r.fs.pool[SrcPath(f)] = up.ver
                   /\ r.fs.pool[DebPath(b.name, b.ver)] = up.ver
                   /\ r.db.spkgs[up.ver].inSuite
                   /\ <<b.name, b.ver>> \in r.db.bpkgs
                   /\ up.ver \notin r.db.newq

\* C14 witness: the first upload was accepted and its source and binary are
\* in the pool, the ledger reads its version and the NEW queue is empty.
UploadPublished ==
    /\ calls = 1
    /\ last.op = "process_changes"
    /\ last.err = "None"
    /\ vmem[SrcName] = last.ver
    /\ pool[SrcPath("f1")] = last.ver
    /\ pool[DebPath("foo", last.ver)] = last.ver
    /\ newq = {}

\* C15: process_changes raises only when no registered uploader matches the
\* signing key or the signature is missing or invalid; every other rejection,
\* an unknown target suite and an importer failure included, is returned as
\* accepted = false with a reason.
RaisesOnlyForSignerOrSignature ==
    \A up \in Uploads :
        LET r == UploadCall(up)
        IN  /\ r.raised => r.reason \in {"SignatureInvalid", "UnknownUploader"}
            /\ (~r.raised /\ ~r.accepted) => r.reason # "None"

PolicyRejections == {"WeakSignature", "DistributionCount", "SourceNotAllowed",
                     "BinaryNotAllowed", "VersionRegression"}

\* C16: when process_changes rejects an upload for a weak signature, a
\* distribution count other than one, a disallowed sourceful or binary upload
\* or a ledger version that is the same as or higher than the uploaded one,
\* no import has been attempted and database, ledger, NEW queue and files are
\* unchanged; an upload without other defect whose version the ledger has
\* reached is rejected so.
PolicyRejectionBeforeImport ==
    \A up \in Uploads :
        LET r == UploadCall(up)
        IN  /\ r.reason \in PolicyRejections =>
                /\ ~r.accepted /\ ~r.raised /\ ~r.failed
                /\ r.db = DB
                /\ r.fs = FS
            /\ (Defects(up.checks) = {} /\ vmem[SrcName] >= up.ver)
                    => r.reason = "VersionRegression"

\* C16 witness: the second upload was rejected because the ledger had reached
\* its version.
UploadRejectedForLedger ==
    /\ calls = 2
    /\ last.op = "process_changes"
    /\ last.err = "VersionRegression"
    /\ ~last.raised
    /\ vmem[SrcName] >= last.ver

OneQueueEntryPerSource ==
    \A a \in SourceArtifacts, policy \in Policies :
        LET r == SourceCall(a, policy)
        IN  /\ r.nq_rows <= 1
            /\ r.nq_rows = 1 <=> a.ver \in r.db.newq
            /\ (a.ver \in newq /\ r.err = "None" /\ r.is_new) =>
                    /\ r.db.newq = newq
                    /\ r.db.spkgs[a.ver].files = Range(a.files)

\* C18 witness: a source with a pending entry is imported to NEW again and
\* one entry is left.
PendingSourceReimported ==
    \E a \in SourceArtifacts, policy \in Policies :
        /\ a.ver \in newq
        /\ SourceCall(a, policy).err = "None"
        /\ SourceCall(a, policy).is_new
        /\ SourceCall(a, policy).nq_rows = 1

\* C19: after import_source succeeds with the pool route, the ledger of the
\* source name equals the imported version, the pending-changes flag of the
\* repo-suite is set, the source is a member of the suite and no NEW-queue
\* entry for it remains.
PoolImportPublishes ==
    \A a \in SourceArtifacts, policy \in Policies :
        LET r == SourceCall(a, policy)
        IN  (r.err = "None" /\ ~r.is_new) =>
                /\ r.db.vmem[SrcName] = a.ver
                /\ r.db.changes_pending
                /\ r.db.spkgs[a.ver].exists /\ r.db.spkgs[a.ver].inSuite
                /\ a.ver \notin r.db.newq
                /\ r.nq_rows = 0

\* C19 witness: a source that was pending in NEW has been imported to the
\* pool over a lower ledger entry, and its entry is gone.
PendingSourcePublished ==
    \E a \in SourceArtifacts, policy \in Policies :
        /\ a.ver \in newq
        /\ vmem[SrcName] # NoVersion /\ vmem[SrcName] < a.ver
        /\ SourceCall(a, policy).err = "None"
        /\ ~SourceCall(a, policy).is_new
        /\ SourceCall(a, policy).db.vmem[SrcName] = a.ver
        /\ a.ver \notin SourceCall(a, policy).db.newq

\* C20: hash verification of a file succeeds only if every computed hash (MD5,
\* SHA1, SHA256, SHA512, file size) equals the value declared on the file
\* record and at least 4 checks were performed; one mismatch makes it fail,
\* and fewer than 4 performed checks is a failure.
HashVerificationSound ==
    hv.called =>
        LET Mismatch(h) == h.hashtype \in KnownHashTypes
                           /\ hv.file[h.hashtype] # h.hashvalue
        IN  /\ hv.err = "None" =>
                   /\ \A h \in Range(hv.hashes) :
                          h.hashtype \in KnownHashTypes
                          /\ hv.file[h.hashtype] = h.hashvalue
                   /\ hv.hashes_checked >= MinHashes
                   /\ hv.hashes_checked = Len(hv.hashes)
            /\ (\E h \in Range(hv.hashes) : Mismatch(h)) => hv.err # "None"
            /\ Len(hv.hashes) < MinHashes => hv.err # "None"

\* C20 witness: every computed hash matched the file record, but fewer than
\* four were computed, and the verification failed.
TooFewHashesRejected ==
    /\ hv.called
    /\ hv.err = "InsufficientHashes"
    /\ Len(hv.hashes) = MinHashes - 1
    /\ \A h \in Range(hv.hashes) : hv.file[h.hashtype] = h.hashvalue

\* C21: the SHA512 section is optional: a source whose stanza declares MD5,
\* SHA1, SHA256 and the size of a file correctly and has no SHA512 section
\* passes hash verification (APT computing the five hash types it knows).
Sha512SectionOptional ==
    LET right == [digest |-> FileDigest, size |-> FileDigest]
        src_tf == [Files |-> right, Sha1 |-> right, Sha256 |-> right,
                   Sha512 |-> NoSection]
    IN  (/\ hv.called
         /\ hv.file = SourceFileRecord(src_tf)
         /\ hv.hashes = Hashes(KnownHashTypes))
            => hv.err = "None"

\* C22: when the release manifest of a suite is read, the signature check is
\* skipped exactly when the reader is marked trusted and has no keyring; in
\* every other combination a manifest is parsed into the cache only if its
\* signature is valid, and one that fails is refused and not cached.
SignatureSkippedOnlyWhenTrusted ==
    \A check \in BOOLEAN :
        LET r == _read_repo_information(rd, check)
            skipped == rd.trusted /\ ~rd.keyrings
            valid == rd.keyrings /\ rd.manifest.sig = "valid"
            parsed == [cached |-> TRUE, files |-> rd.manifest.files]
        IN  (~rd.inrelease.cached /\ rd.manifest.present) =>
                /\ skipped => (r.err = "None" /\ r.rd.inrelease = parsed)
                /\ (~skipped /\ valid) => (r.err = "None" /\ r.rd.inrelease = parsed)
                /\ (~skipped /\ ~valid) =>
                        (r.err = "SignatureInvalid" /\ r.rd.inrelease = NoCache)

\* C22 witness: a trusted reader with keyrings has refused a manifest whose
\* signature is not valid.
TrustedReaderRefusedManifest ==
    /\ rd.op = "index_file" /\ rd.out = "SignatureInvalid"
    /\ rd.trusted /\ rd.keyrings
    /\ rd.manifest.present /\ rd.manifest.sig = "invalid"
    /\ ~rd.inrelease.cached

\* C23: index_file never returns a path for an index file that the manifest
\* lists under that exact path with another SHA256 than the file's, whatever
\* the check flag; when the manifest does not list the path, index_file
\* fails if check is true and returns the path if check is false.
IndexValidatedAgainstManifest ==
    \A check \in BOOLEAN :
        LET r == index_file(rd, IndexName, check)
            ird == r.rd.inrelease
            listed == \E af \in ird.files : af.fname = IndexName
        IN  /\ r.out = "path" =>
                   /\ rd.file # NoFile
                   /\ \A af \in ird.files :
                          af.fname = IndexName => af.sha256sum = rd.file
            /\ (ird.cached /\ rd.file # NoFile /\ ~listed) =>
                   r.out = IF check THEN "NotInManifest" ELSE "path"

\* C23 witness: the manifest lists the index twice, once with the SHA256 of
\* the file and once with another, and index_file has failed.
ListedTwiceRejected ==
    /\ rd.op = "index_file" /\ rd.out = "ChecksumMismatch"
    /\ \E af \in rd.inrelease.files : af.fname = IndexName /\ af.sha256sum = rd.file
    /\ \E af \in rd.inrelease.files : af.fname = IndexName /\ af.sha256sum # rd.file

\* C24: a missing release manifest is an error only when the caller requires
\* checking: index_file with check = false on a suite whose InRelease file
\* cannot be found returns the path of the index file, or None when the
\* index file is absent.
MissingManifestToleratedUnchecked ==
    (~rd.repo_url /\ ~rd.manifest.present /\ ~rd.inrelease.cached) =>
        index_file(rd, IndexName, FALSE).out = IF rd.file = NoFile THEN "None" ELSE "path"

\* C25: a reader of a remote URL discards the cached manifest on every
\* index_file call and fetches, verifies and parses it again before it
\* validates the index; a reader of a local directory that has read the
\* manifest of a suite uses that snapshot in every later call.
ManifestCachePolicy ==
    \A check \in BOOLEAN :
        LET r == index_file(rd, IndexName, check)
        IN  /\ rd.repo_url =>
                   /\ r.fetched
                   /\ r.rd.inrelease.cached =>
                          /\ rd.manifest.present
                          /\ r.rd.inrelease.files = rd.manifest.files
                          /\ SignedFile(rd, rd.manifest, RequireSignature(rd))
                   /\ ~r.rd.inrelease.cached => r.out \in ReaderErr
            /\ (~rd.repo_url /\ rd.inrelease.cached) =>
                   /\ ~r.fetched
                   /\ r.rd.inrelease = rd.inrelease

\* C25 witness: the remote repository changed its manifest after a call, and
\* the next call works with the new one.
RemoteManifestRefetched ==
    /\ rd.repo_url /\ rd.inrelease.cached
    /\ rd.manifest.present /\ rd.manifest.files # rd.inrelease.files
    /\ index_file(rd, IndexName, TRUE).rd.inrelease =
            [cached |-> TRUE, files |-> rd.manifest.files]

\* C26: get_file with its default check returns a local path only if the
\* SHA256 of the file equals the sha256sum of the ArchiveFile record of the
\* caller; otherwise it fails, and the release manifest is not consulted.
DataFileCheckedAgainstRecord ==
    \A sha256sum \in 1..MaxDigest :
        LET r == get_file(rd, sha256sum, TRUE)
        IN  /\ r.out = "path" <=> (rd.file # NoFile /\ rd.file = sha256sum)
            /\ r.out # "path" => r.out \in ReaderErr
            /\ ~r.fetched
            /\ r.rd = rd

\* C26 witness: get_file has refused a file that is there, from a reader that
\* never read a manifest.
DataFileRefused ==
    /\ rd.op = "get_file" /\ rd.out = "ChecksumMismatch"
    /\ rd.file # NoFile
    /\ ~rd.inrelease.cached

\* Index entry i of the listing is among the records returned.
Returned(i) == \E k \in 1..Len(ls.pkgs) : ls.pkgs[k].entry = i

\* C27: listing the binary packages of an index for a requested architecture
\* A: an entry declared `all` is returned iff A is `all`; when A is `all` only
\* `all` entries are returned; when A is not `all`, an entry whose
\* architecture is neither A nor `all` is returned with a warning and is
\* recorded under A.
ListingByArchitecture ==
    ls.op # "none" =>
        \A i \in 1..Len(ls.tf) :
            LET arch_name == ls.tf[i].arch_name
            IN  /\ arch_name = "all" => (Returned(i) <=> ls.arch = "all")
                /\ (ls.arch = "all" /\ Returned(i)) => arch_name = "all"
                /\ (ls.arch # "all" /\ arch_name \notin {ls.arch, "all"}) =>
                       \E k \in 1..Len(ls.pkgs) :
                           /\ ls.pkgs[k].entry = i
                           /\ ls.pkgs[k].warned
                           /\ ls.pkgs[k].architecture = ls.arch

\* C27 witness: amd64 was requested, and the index held an arm64 entry and an
\* `all` entry: the first is listed, the second is not.
ForeignEntryListed ==
    /\ ls.op = "binary_packages" /\ ls.arch = "amd64"
    /\ \E i, j \in 1..Len(ls.tf) :
           /\ ls.tf[i].arch_name = "arm64" /\ Returned(i)
           /\ ls.tf[j].arch_name = "all" /\ ~Returned(j)

\* C28: every record returned by installer_packages is tagged as installer
\* type (udeb), whatever the Filename field of its entry says.
InstallerRecordsAreUdeb ==
    ls.op = "installer_packages" =>
        \A k \in 1..Len(ls.pkgs) : ls.pkgs[k].deb_type = "UDEB"

\* C29: within import_source no file of the package is copied or moved to
\* the pool or to the NEW queue before every file of the package has passed
\* hash verification; if a file fails verification, no file of the package
\* is placed.
VerifiedBeforePlaced ==
    \A a \in SourceArtifacts, policy \in Policies :
        LET r == SourceCall(a, policy)
        IN  (a.bad # 0) =>
                /\ r.err \in {"VersionRegression", "ChecksumMismatch"}
                /\ r.fs.pool = pool
                /\ \A p \in Paths : r.fs.queue[p] \in {queue[p], Absent}

\* C29 witness: the first file of a source verifies and its destination is
\* free, the second file fails verification, and the import was refused.
SecondFileFailed ==
    /\ last.op = "import_source" /\ last.err = "ChecksumMismatch"
    /\ \E a \in SourceArtifacts, policy \in Policies :
           /\ a.ver = last.ver /\ a.bad = 2
           /\ SourceCall(a, policy).err = "ChecksumMismatch"
           /\ pool[SrcPath(a.files[1])] = Absent
           /\ queue[SrcPath(a.files[1])] = Absent

\* Sound uploads of one source and one binary.
SourceAndBinaryUploads ==
    {up \in SoundUploads : Len(up.dsc) = 1 /\ Len(up.debs) = 1}

\* C30: if within one process_changes call the source import succeeds into
\* the pool and the binary import after it fails, process_changes returns
\* accepted = false and the source's pool files, its database rows and its
\* ledger advance stay: nothing is rolled back, and the session_scope around
\* the call commits them.
SourceKeptWhenBinaryFails ==
    \A up \in SourceAndBinaryUploads :
        LET r == UploadCall(up)
            rs == import_source(DB, FS, up.dsc[1],
                                UploadPolicy(up.checks.always_review, up.policy))
        IN  (r.failed /\ rs.err = "None" /\ ~rs.is_new) =>
                /\ ~r.accepted /\ ~r.raised /\ r.reason # "None"
                /\ r.db.vmem[SrcName] = up.ver
                /\ r.db.spkgs[up.ver].exists /\ r.db.spkgs[up.ver].inSuite
                /\ r.db.changes_pending
                /\ \A f \in Range(up.dsc[1].files) : r.fs.pool[SrcPath(f)] = up.ver

\* C30 witness: an upload was rejected for the checksum of its binary, and
\* its source is published: in the suite, in the pool and in the ledger.
SourcePublishedBinaryRefused ==
    /\ last.op = "process_changes" /\ last.err = "ChecksumMismatch"
    /\ ~last.raised
    /\ vmem[SrcName] = last.ver
    /\ spkgs[last.ver].exists /\ spkgs[last.ver].inSuite
    /\ \E f \in spkgs[last.ver].files : pool[SrcPath(f)] = last.ver
    /\ bpkgs = {}

\* C31: the files of an upload are imported with at most one .dsc, and that
\* one before every .deb/.udeb; the binaries are imported in the order of
\* the manifest; the first file whose name holds a path separator or whose
\* import fails ends the processing with a rejection, and no later file is
\* imported; an upload is accepted only with all its binaries imported.
ImportsInManifestOrder ==
    mf.called =>
        LET f == mf.files
            t == mf.trace
            IsDsc(k) == f[t[k].idx].kind = "dsc"
            Called(i) == \E k \in DOMAIN t : t[k].idx = i
            Stops(i) == f[i].slash \/ \E k \in DOMAIN t : t[k].idx = i /\ t[k].err # "None"
            Debs == {i \in DOMAIN f : f[i].kind = "deb"}
            d == FirstDsc(f)
        IN  /\ \A k \in DOMAIN t : IsDsc(k) => k = 1 /\ t[k].idx = d
            /\ \A k, l \in DOMAIN t :
                   k < l /\ ~IsDsc(k) /\ ~IsDsc(l) => t[k].idx < t[l].idx
            /\ \A k \in DOMAIN t : ~f[t[k].idx].slash
            /\ \A k \in DOMAIN t : t[k].err # "None" => k = Len(t) /\ ~mf.accepted
            /\ d # 0 /\ Stops(d) => Len(t) <= 1 /\ \A i \in Debs : ~Called(i)
            /\ \A i, j \in Debs : i < j /\ Stops(i) => ~Called(j)
            /\ \A i \in Debs :
                   Called(i) \/ f[i].slash
                   \/ (d # 0 /\ Stops(d)) \/ \E j \in Debs : j < i /\ Stops(j)
            /\ d # 0 => Called(d) \/ f[d].slash
            /\ mf.accepted <=> (\A i \in DOMAIN f : ~Stops(i) \/ (f[i].kind = "dsc" /\ i # d))

\* Two binaries, the first of which failed to import: the second was not tried.
SecondBinaryNotTried ==
    /\ mf.called
    /\ Len(mf.files) = 2
    /\ \A i \in 1..2 : mf.files[i].kind = "deb" /\ ~mf.files[i].slash
    /\ Len(mf.trace) = 1
    /\ mf.trace[1].idx = 1
    /\ mf.trace[1].err # "None"

\* C32: an import_source call that routes the source to the NEW queue leaves
\* the ledger and the pending-changes flag of the repo-suite as they were and
\* does not add the source to the suite; an import changes the ledger only
\* when it succeeds with the pool route.
NewRouteLeavesLedger ==
    /\ \A a \in SourceArtifacts, policy \in Policies :
           LET r == SourceCall(a, policy)
           IN  /\ (r.err = "None" /\ r.is_new) =>
                      /\ r.db.vmem = vmem
                      /\ r.db.changes_pending = changes_pending
                      /\ r.db.spkgs[a.ver].inSuite = spkgs[a.ver].inSuite
                      /\ a.ver \in r.db.newq
               /\ r.db.vmem # vmem => r.err = "None" /\ ~r.is_new
    /\ \A b \in BinaryArtifacts :
           LET r == BinaryCall(b)
           IN  r.db.vmem # vmem => r.err = "None" /\ ~r.is_new

\* C32 witness: with a version published and the flag clear, a higher version
\* is routed to the NEW queue.
HigherVersionRoutedToNew ==
    \E a \in SourceArtifacts, policy \in Policies :
        /\ vmem[SrcName] # NoVersion /\ vmem[SrcName] < a.ver
        /\ SourceCall(a, policy).err = "None"
        /\ SourceCall(a, policy).is_new
        /\ a.ver \notin newq
        /\ a.ver \in SourceCall(a, policy).db.newq
        /\ SourceCall(a, policy).db.vmem[SrcName] = vmem[SrcName]

\* C33: session_scope calls commit exactly once when the block ends without
\* raising and never when the block raises; after a block that raised, the
\* session was rolled back, the database is as it was and the exception goes
\* on to the caller; the session is closed once on every path, and nothing
\* is committed for a block that raised.
ScopeCommitsOrRollsBack ==
    /\ ss.raised => ss.commits = 0 /\ ~ss.committed
    /\ ss.commits <= 1 /\ ss.rollbacks <= 1 /\ ss.closes <= 1
    /\ ss.pc = "done" =>
           /\ ss.closes = 1
           /\ ss.commits = 1 <=> ~ss.raised
           /\ ss.raised => ss.rollbacks = 1 /\ ss.pending /\ DB = ss.before
           /\ ss.committed => ss.rollbacks = 0 /\ ~ss.pending
           /\ ~ss.committed => ss.rollbacks = 1 /\ ss.pending /\ DB = ss.before

\* C33 witness: a scope whose block raised after a scope that committed a
\* published version has ended.
ScopeEndedAfterRaise ==
    /\ ss.pc = "done"
    /\ ss.raised
    /\ ss.rollbacks = 1
    /\ ss.closes = 1
    /\ vmem[SrcName] # NoVersion

\* C34: fetch_build_depcheck_issues and fetch_depcheck_issues hold the
\* publish lock of their suite while the index files are read and the tool
\* runs, hold it alone, have released it on every way out (an exception
\* included), and write issue records only after the release.
DoseLockedOnlyWhileReading ==
    /\ \A p \in Procs :
           /\ dc[p].pc \in {"read", "run"} => dc[p].held
           /\ dc[p].pc \in {"idle", "wait", "update", "done", "failed"} => ~dc[p].held
           /\ ~dc[p].unlocked_read
           /\ ~dc[p].locked_update
    /\ \A p, q \in Procs :
           p # q /\ dc[p].held /\ dc[q].held => dc[p].suite # dc[q].suite

\* C34 witness: a call ended with an exception and the other process holds
\* the lock of the same suite, while reading.
LockTakenAfterException ==
    \E p, q \in Procs :
        /\ dc[p].pc = "failed"
        /\ dc[q].pc = "read" /\ dc[q].held
        /\ dc[p].suite = dc[q].suite

\* C35: when import_source fails on a source that is pending in the NEW
\* queue, the files staged for that package in the NEW-queue directory
\* before the call are still there after it.
StagedFilesKeptOnFailure ==
    \A a \in SourceArtifacts, policy \in Policies :
        LET r == SourceCall(a, policy)
        IN  (a.ver \in newq /\ r.err # "None") =>
                \A f \in spkgs[a.ver].files :
                    r.fs.queue[SrcPath(f)] = queue[SrcPath(f)]

\* C36: with two processes importing different versions of one source
\* package at the same time, the ledger ends at the higher version: when a
\* process has published its version, the ledger is not below it.
LedgerEndsAtHigherVersion ==
    \A p \in Procs :
        (pc[p] = "done" /\ res[p] = "None" /\ PublishedSource(DB, job[p].ver)) =>
            vmem[SrcName] >= job[p].ver

\* C37: once the ledger of the source name has read V (import_source has
\* published a source of version V, which set the ledger to V), every later
\* process_changes call for an upload of a version equal to or lower than V
\* that passes the checks before the ledger check is rejected by that check,
\* and no importer is called: the database and the files are as before.
OldVersionsRejectedByLedger ==
    \A up \in SoundUploads :
        (\E V \in Versions : PublishedSource(DB, V) /\ up.ver <= V) =>
            LET r == UploadCall(up)
            IN  /\ r.reason = "VersionRegression"
                /\ r.db = DB
                /\ r.fs = FS

\* C38: every record returned by source_packages or binary_packages for a
\* suite lists that suite, and no other, as its suites, whatever was listed
\* before.
RecordsListTheirSuite ==
    (sl.op # "none" /\ sl.count > 0) => SuitesOfRecords = <<sl.suite>>

\* C39: after the conversion of a report entry, the issue it put into
\* all_issues has in missing and conflicts exactly the reasons of that
\* entry, also when the issue was stored before and the entry has no reasons.
IssueReflectsItsReasons ==
    (di.called /\ di.listed) =>
        /\ di.missing = reasons_loop_assigning_after(NoIssue, di.reasons, 1, <<>>, <<>>).missing
        /\ di.conflicts = reasons_loop_assigning_after(NoIssue, di.reasons, 1, <<>>, <<>>).conflicts

\* C40: an event is treated as signature-verified exactly when at least one
\* of its signatures is by a trusted key and verifies, whatever the order of
\* the signatures and whatever the other signatures are.
VerifiedIffSomeTrustedSignature ==
    (ev.called /\ ~ev.blacklisted /\ ev.present) =>
        (ev.signature_trusted <=>
            \E i \in 1..Len(ev.signatures) :
                ev.signatures[i].trusted /\ ev.signatures[i].valid)

====
